---------------------------- MODULE Spec2Model ----------------------------
(***************************************************************************)
(* A model of TQ Terminal Nexus: the terminal state engine                 *)
(* (terminalStateManager.ts), the broadcast dispatcher (broadcaster.ts)    *)
(* and the automation orchestrator (TaskAutomationManager).                *)
(*                                                                         *)
(* Strings are sequences of one-character strings.  "ESC" and "BEL" stand  *)
(* for the control characters U+001B and U+0007, ">>" for the glyph        *)
(* U+00BB.  A timer is an armed flag together with what its closure        *)
(* captured; an await is a program position at which the other handlers    *)
(* may run.  Eight specifications share the variables:                     *)
(*   SpecEngine       the state engine of one session,                     *)
(*   SpecBroadcast    one interactive Broadcaster.broadcast call,          *)
(*   SpecAutomation   polling and chain runs with their dispatches,        *)
(*   SpecParse        parseChainScript applied to a script,                *)
(*   SpecRuns         a polling run and a chain run against one session,   *)
(*   SpecPlaceholders the commands a dispatch resolves for its targets,    *)
(*   SpecPrompts      the ready-prompt patterns reloaded from the setting, *)
(*   SpecQuiet        the state engine with timers that fire in the order  *)
(*                    of their delays, and fire in the end.                *)
(***************************************************************************)
EXTENDS Integers, Sequences, FiniteSets, TLC

(***************************************************************************)
(* Bounds of the model.                                                    *)
(***************************************************************************)
\* length of the rolling buffer (BUFFER_SIZE in the source is 220)
BufferSize == 3
\* highest execution generation a tracker reaches
MaxVersion == 2
\* number of sessions
NumTerminals == 3
\* number of events of the environment (session closed, focused, execution started or
\* ended) in one behaviour of SpecBroadcast
MaxEnvEvents == 1

(***************************************************************************)
(* Sessions.                                                               *)
(***************************************************************************)
AllTerminals == 1 .. NumTerminals

NoTerminal == 0

IDLE == "IDLE"

RUNNING_PROGRAM == "RUNNING_PROGRAM"

CLI_WAITING == "CLI_WAITING"

CLI_THINKING == "CLI_THINKING"

TerminalState == {IDLE, RUNNING_PROGRAM, CLI_WAITING, CLI_THINKING}

VARIABLES
  terminals,       \* vscode.window.terminals: the open sessions
  closedTerminals, \* the sessions that were open and are disposed
  activeTerminal,  \* vscode.window.activeTerminal, or NoTerminal
  tracked,         \* the keys of TerminalStateManager.trackers
  trackers,        \* the tracker of each tracked session
  streams,         \* per session, the generations of live stream consumers
  matched,         \* history: the buffer matched a prompt since its reset
  disp,            \* per caller, its call of Broadcaster.dispatchResolvedCommands
  bcast,           \* the call of Broadcaster.broadcast
  status,          \* TaskAutomationManager.status
  pollingTimer,    \* TaskAutomationManager.pollingTimer and the tick it calls
  pollingRunId,    \* TaskAutomationManager.pollingRunId
  pollingBusy,     \* TaskAutomationManager.pollingBusy
  chainRunId,      \* TaskAutomationManager.chainRunId
  chains,          \* the calls of TaskAutomationManager.executeChain in flight
  sendTextThrows,  \* whether Terminal.sendText throws on a disposed session, once
                   \* a session is disposed
  envEvents,       \* history: the number of events of the environment so far
  last,            \* history: what the last step did
  argument,        \* the argument handed to a pure function of the program
  result,          \* what the function returned or threw for it
  unready,         \* history: per call of executeChain and session, the time on the
                   \* clock of the call's wait for readiness at which the session was
                   \* last outside the ready states
  panel            \* ControlPanelProvider: terminals, selectedKeys, refreshNonce and
                   \* its calls of refreshTerminals in flight

envVars == <<terminals, closedTerminals, activeTerminal>>

engineVars == <<tracked, trackers, streams, matched>>

automationVars == <<status, pollingTimer, pollingRunId, pollingBusy, chainRunId, chains>>

vars == <<terminals, closedTerminals, activeTerminal, tracked, trackers, streams,
          matched, disp, bcast, status, pollingTimer, pollingRunId, pollingBusy,
          chainRunId, chains, sendTextThrows, envEvents, last, argument, result,
          unready, panel>>

\* the control panel before its view is resolved
NoPanel ==
  [terminals |-> <<>>, selectedKeys |-> {}, refreshNonce |-> 0, refreshes |-> {},
   descriptors |-> <<>>, autoSelectRegex |-> <<>>]

\* what the steps of the engine, the dispatcher and the runs leave alone
restVars == <<argument, result, unready, panel>>

dispatchVars == <<disp, bcast, automationVars, sendTextThrows>>

(***************************************************************************)
(* Text helpers.                                                           *)
(***************************************************************************)
Whitespace == {" ", "\n", "\r", "\t"}

RECURSIVE StripWhitespace(_)
\* text.replace(/\s+/g, "")
StripWhitespace(s) ==
  IF s = <<>> THEN <<>>
  ELSE IF Head(s) \in Whitespace THEN StripWhitespace(Tail(s))
  ELSE <<Head(s)>> \o StripWhitespace(Tail(s))

\* (s).slice(-n)
SliceLast(s, n) ==
  IF Len(s) <= n THEN s ELSE SubSeq(s, Len(s) - n + 1, Len(s))

\* the first index >= i of s that holds a character outside cs (Len(s)+1 if none)
RECURSIVE SkipWhile(_, _, _)
SkipWhile(s, i, cs) ==
  IF i <= Len(s) /\ s[i] \in cs THEN SkipWhile(s, i + 1, cs) ELSE i

\* the first index >= i of s that holds a character of cs (0 if none)
RECURSIVE FindFrom(_, _, _)
FindFrom(s, i, cs) ==
  IF i > Len(s) THEN 0
  ELSE IF s[i] \in cs THEN i
  ELSE FindFrom(s, i + 1, cs)

CsiParams == {"0", "1", "2", "3", "4", "5", "6", "7", "8", "9", ";", "?"}

CsiIntermediates == {" ", "!", "#", "$", "%", "&", "(", ")", "*", "+", ",", "-", ".", "/"}

\* the characters @ .. ~ of the model's alphabet
CsiFinals == {"x", "m", "K", "[", "]", "e", "r", "o", "A", "a", "B", "b"}

\* the last index j >= i of s with s[j] = ESC and s[j+1] = backslash (0 if none)
LastStringTerminator(s, i) ==
  LET js == {j \in i .. Len(s) - 1 : s[j] = "ESC" /\ s[j + 1] = "\\"}
  IN IF js = {} THEN 0 ELSE CHOOSE j \in js : \A k \in js : k <= j

\* the end of an OSC sequence that starts at i, 0 if none: ESC ] [^BEL]* (BEL | ESC \),
\* the greedy run stopping at the first BEL, else at the last ESC \
OscEnd(s, i) ==
  IF i + 1 <= Len(s) /\ s[i] = "ESC" /\ s[i + 1] = "]"
  THEN LET bel == FindFrom(s, i + 2, {"BEL"})
           st == LastStringTerminator(s, i + 2)
       IN IF bel # 0 THEN bel
          ELSE IF st # 0 THEN st + 1
          ELSE 0
  ELSE 0

\* the end of a CSI sequence that starts at i (ESC [ params intermediates final), 0 if none
CsiEnd(s, i) ==
  IF i + 1 <= Len(s) /\ s[i] = "ESC" /\ s[i + 1] = "["
  THEN LET p == SkipWhile(s, i + 2, CsiParams)
           q == SkipWhile(s, p, CsiIntermediates)
       IN IF q <= Len(s) /\ s[q] \in CsiFinals THEN q ELSE 0
  ELSE 0

RECURSIVE StripOsc(_, _)
StripOsc(s, i) ==
  IF i > Len(s) THEN <<>>
  ELSE IF OscEnd(s, i) # 0 THEN StripOsc(s, OscEnd(s, i) + 1)
  ELSE <<s[i]>> \o StripOsc(s, i + 1)

RECURSIVE StripCsi(_, _)
StripCsi(s, i) ==
  IF i > Len(s) THEN <<>>
  ELSE IF CsiEnd(s, i) # 0 THEN StripCsi(s, CsiEnd(s, i) + 1)
  ELSE <<s[i]>> \o StripCsi(s, i + 1)

\* sanitizeTerminalData: OSC and CSI sequences removed, \r made \n
sanitizeTerminalData(input) ==
  LET a == StripOsc(input, 1)
      b == StripCsi(a, 1)
  IN [i \in 1 .. Len(b) |-> IF b[i] = "\r" THEN "\n" ELSE b[i]]

BarePromptGlyphs == {">", ">>", "$", ":", "?"}

\* hasMeaningfulOutput: more than whitespace and bare prompt glyphs
hasMeaningfulOutput(text) ==
  LET normalized == StripWhitespace(text)
  IN /\ normalized # <<>>
     /\ \E i \in 1 .. Len(normalized) : normalized[i] \notin BarePromptGlyphs

THINKING_MIN_LENGTH == 18

\* the keyword test of indicatesThinkingSignal: of its words the alphabet spells "error"
HasThinkingWord(text) ==
  \E i \in 1 .. Len(text) - 4 :
    SubSeq(text, i, i + 4) \in {<<"e", "r", "r", "o", "r">>, <<"E", "r", "r", "o", "r">>}

indicatesThinkingSignal(text, hasMeaningful) ==
  IF ~hasMeaningful THEN FALSE
  ELSE IF \E i \in 1 .. Len(text) : text[i] = "\n" THEN TRUE
  ELSE IF Len(StripWhitespace(text)) >= THINKING_MIN_LENGTH THEN TRUE
  ELSE HasThinkingWord(text)

\* String.prototype.toLowerCase on the model's alphabet
LowerChar(c) ==
  CASE c = "A" -> "a" [] c = "B" -> "b" [] c = "E" -> "e" [] c = "M" -> "m"
    [] c = "R" -> "r" [] c = "T" -> "t" [] c = "D" -> "d" [] c = "L" -> "l"
    [] c = "Y" -> "y" [] OTHER -> c

toLowerCase(s) == [i \in 1 .. Len(s) |-> LowerChar(s[i])]

\* a trim that removes nothing
trimNothing(s) == s

\* String.prototype.trim
trim(s) ==
  LET keep == {i \in 1 .. Len(s) : s[i] \notin Whitespace}
  IN IF keep = {} THEN <<>>
     ELSE SubSeq(s, CHOOSE i \in keep : \A k \in keep : i <= k,
                    CHOOSE j \in keep : \A k \in keep : k <= j)

\* String.prototype.includes
includes(s, sub) ==
  \E i \in 1 .. Len(s) - Len(sub) + 1 : SubSeq(s, i, i + Len(sub) - 1) = sub

\* whether pat stands in s at index i
StartsAt(s, i, pat) ==
  i + Len(pat) - 1 <= Len(s) /\ SubSeq(s, i, i + Len(pat) - 1) = pat

RECURSIVE ReplaceFrom(_, _, _, _)
ReplaceFrom(s, i, pat, rep) ==
  IF i > Len(s) THEN <<>>
  ELSE IF StartsAt(s, i, pat) THEN rep \o ReplaceFrom(s, i + Len(pat), pat, rep)
  ELSE <<s[i]>> \o ReplaceFrom(s, i + 1, pat, rep)

\* s.replace(/pat/g, rep) for a literal pattern
replaceAll(s, pat, rep) == ReplaceFrom(s, 1, pat, rep)

\* GetSubstitution of String.prototype.replace for a pattern without capture groups:
\* in the replacement string $$ stands for $, $& for the match and $' for the text
\* after the match; any other $ stands for itself (a $ before a backquote stands for
\* the text before the match: no string of the model holds a backquote)
RECURSIVE GetSubstitution(_, _, _, _)
GetSubstitution(found, str, position, replacement) ==
  IF replacement = <<>> THEN <<>>
  ELSE IF Head(replacement) = "$" /\ Len(replacement) >= 2
          /\ replacement[2] \in {"$", "&", "'"}
  THEN ( CASE replacement[2] = "$" -> <<"$">>
           [] replacement[2] = "&" -> found
           [] OTHER -> SubSeq(str, position + Len(found), Len(str)) )
       \o GetSubstitution(found, str, position, SubSeq(replacement, 3, Len(replacement)))
  ELSE <<Head(replacement)>> \o GetSubstitution(found, str, position, Tail(replacement))

RECURSIVE ReplaceFromWith(_, _, _, _)
ReplaceFromWith(s, i, pat, rep) ==
  IF i > Len(s) THEN <<>>
  ELSE IF StartsAt(s, i, pat)
  THEN GetSubstitution(pat, s, i, rep) \o ReplaceFromWith(s, i + Len(pat), pat, rep)
  ELSE <<s[i]>> \o ReplaceFromWith(s, i + 1, pat, rep)

\* s.replace(/pat/g, rep) for a literal pattern and a replacement string of any text
replace(s, pat, rep) == ReplaceFromWith(s, 1, pat, rep)

RECURSIVE SplitFrom(_, _, _)
SplitFrom(s, i, cur) ==
  IF i > Len(s) THEN <<cur>>
  ELSE IF s[i] = "\n" THEN <<cur>> \o SplitFrom(s, i + 1, <<>>)
  ELSE SplitFrom(s, i + 1, Append(cur, s[i]))

\* s.split("\n")
splitLines(s) == SplitFrom(s, 1, <<>>)

(***************************************************************************)
(* Ready-prompt detection: DEFAULT_CLI_PROMPT_PATTERNS, compiled with the  *)
(* m flag, so that ^ and $ match at every line boundary.                   *)
(***************************************************************************)
LineStart(s, i) ==
  LET nl == {j \in 1 .. i - 1 : s[j] = "\n"}
  IN IF nl = {} THEN 1 ELSE (CHOOSE j \in nl : \A k \in nl : k <= j) + 1

LineEnd(s, i) ==
  LET nl == {j \in i + 1 .. Len(s) : s[j] = "\n"}
  IN IF nl = {} THEN Len(s) ELSE (CHOOSE j \in nl : \A k \in nl : j <= k) - 1

\* pattern 1: a line holding only a prompt glyph (the optional CLI name left out)
MatchesGlyphLine(s) ==
  \E i \in 1 .. Len(s) :
    /\ s[i] \in {">", ">>", "$"}
    /\ \A j \in LineStart(s, i) .. i - 1 : s[j] \in Whitespace
    /\ \A j \in i + 1 .. LineEnd(s, i) : s[j] \in Whitespace

PROMPT_PREFIX_MAX == 80

\* pattern 3: a line of at most 80 characters that ends with a chevron glyph
MatchesChevronLine(s) ==
  \E i \in 1 .. Len(s) :
    /\ s[i] = ">>"
    /\ \E b \in 1 .. i : /\ i - b <= PROMPT_PREFIX_MAX
                         /\ (b = 1 \/ s[b - 1] = "\n")
                         /\ \A j \in b .. i - 1 : s[j] # "\n"
    /\ \A j \in i + 1 .. LineEnd(s, i) : s[j] \in Whitespace

\* promptRegexes.some(regex => regex.test(buffer))
IsPrompt(buffer) == MatchesGlyphLine(buffer) \/ MatchesChevronLine(buffer)

(***************************************************************************)
(* The state engine: TerminalStateManager.                                 *)
(***************************************************************************)
\* an unarmed timer handle
NoTimer == [armed |-> FALSE, version |-> 0, quiet |-> TRUE]

\* the tracker getOrCreateTracker creates; evaluateVersion is history: the generation
\* in which the armed evaluation timer was created, 0 if none is armed
NewTracker ==
  [state |-> IDLE, buffer |-> <<>>, pendingThinkingSignal |-> FALSE,
   executionVersion |-> 0, isInteractiveCli |-> FALSE,
   evaluateTimer |-> FALSE, evaluateVersion |-> 0, quietTimer |-> NoTimer]

getOrCreateTracker(t) == IF t \in tracked THEN trackers[t] ELSE NewTracker

\* getState: the tracker's state, IDLE without a tracker
getState(t) == IF t \in tracked THEN trackers[t].state ELSE IDLE

isReadyState(state) == state = IDLE \/ state = CLI_WAITING

isReadyForBroadcast(t) == isReadyState(getState(t))

isInteractiveCliSession(t) == IF t \in tracked THEN trackers[t].isInteractiveCli ELSE FALSE

\* setState: the new tracker and the state-change events fired
setState(tr, nextState) ==
  IF tr.state = nextState
  THEN [tracker |-> tr, events |-> <<>>]
  ELSE [tracker |-> [tr EXCEPT !.state = nextState], events |-> <<nextState>>]

\* scheduleQuietProbe: the previous timer cleared, a new one armed that captures the
\* generation; quiet records that lastOutputAt has not moved since the timer was armed,
\* which is what elapsed >= delayMs tests when the timer fires
scheduleQuietProbe(tr, executionVersion) ==
  [tr EXCEPT !.quietTimer = [armed |-> TRUE, version |-> executionVersion, quiet |-> TRUE]]

\* QuietProbeCallback without its test of isInteractiveCli
QuietProbeCallbackAnySession(latest) ==
  LET spent == [latest EXCEPT !.quietTimer.armed = FALSE]
  IN IF latest.executionVersion # latest.quietTimer.version
     THEN [tracker |-> spent, events |-> <<>>]
     ELSE IF latest.quietTimer.quiet /\ latest.state \in {RUNNING_PROGRAM, CLI_THINKING}
     THEN setState(spent, CLI_WAITING)
     ELSE [tracker |-> spent, events |-> <<>>]

\* the callback of the quiet-probe timer without its call of setState
QuietProbeCallbackSpent(latest) ==
  [tracker |-> [latest EXCEPT !.quietTimer.armed = FALSE], events |-> <<>>]

\* the callback of the quiet-probe timer, run on the latest tracker of the session
QuietProbeCallback(latest) ==
  LET spent == [latest EXCEPT !.quietTimer.armed = FALSE]
  IN IF latest.executionVersion # latest.quietTimer.version \/ ~latest.isInteractiveCli
     THEN [tracker |-> spent, events |-> <<>>]
     ELSE IF latest.quietTimer.quiet /\ latest.state \in {RUNNING_PROGRAM, CLI_THINKING}
     THEN setState(spent, CLI_WAITING)
     ELSE [tracker |-> spent, events |-> <<>>]

\* notifyInputSent without its test of the state
notifyInputSentAnyState(tr) ==
  LET r == setState(tr, CLI_THINKING)
  IN [tracker |-> scheduleQuietProbe(r.tracker, tr.executionVersion),
      events |-> r.events]

\* notifyInputSent without its call of scheduleQuietProbe
notifyInputSentWithoutProbe(tr) ==
  IF tr.state = CLI_WAITING \/ tr.state = RUNNING_PROGRAM
  THEN setState(tr, CLI_THINKING)
  ELSE [tracker |-> tr, events |-> <<>>]

\* notifyInputSent on a tracker
notifyInputSent(tr) ==
  IF tr.state = CLI_WAITING \/ tr.state = RUNNING_PROGRAM
  THEN LET r == setState(tr, CLI_THINKING)
       IN [tracker |-> scheduleQuietProbe(r.tracker, tr.executionVersion),
           events |-> r.events]
  ELSE [tracker |-> tr, events |-> <<>>]

\* evaluateTracker with the pending-signal rule of CLI_WAITING tried before the prompt
evaluateTrackerSignalFirst(tr) ==
  IF tr.state = CLI_WAITING /\ tr.pendingThinkingSignal
  THEN setState([tr EXCEPT !.pendingThinkingSignal = FALSE], CLI_THINKING)
  ELSE IF IsPrompt(tr.buffer)
  THEN LET cleared == [tr EXCEPT !.pendingThinkingSignal = FALSE]
       IN IF tr.state = RUNNING_PROGRAM \/ tr.state = CLI_THINKING
          THEN setState(cleared, CLI_WAITING)
          ELSE [tracker |-> cleared, events |-> <<>>]
  ELSE IF tr.state = RUNNING_PROGRAM /\ tr.isInteractiveCli /\ tr.pendingThinkingSignal
  THEN setState([tr EXCEPT !.pendingThinkingSignal = FALSE], CLI_THINKING)
  ELSE [tracker |-> [tr EXCEPT !.pendingThinkingSignal = FALSE], events |-> <<>>]

\* evaluateTracker leaving the pending signal as it is when no rule applies
evaluateTrackerKeepsSignal(tr) ==
  IF IsPrompt(tr.buffer)
  THEN LET cleared == [tr EXCEPT !.pendingThinkingSignal = FALSE]
       IN IF tr.state = RUNNING_PROGRAM \/ tr.state = CLI_THINKING
          THEN setState(cleared, CLI_WAITING)
          ELSE [tracker |-> cleared, events |-> <<>>]
  ELSE IF tr.state = CLI_WAITING /\ tr.pendingThinkingSignal
  THEN setState([tr EXCEPT !.pendingThinkingSignal = FALSE], CLI_THINKING)
  ELSE IF tr.state = RUNNING_PROGRAM /\ tr.isInteractiveCli /\ tr.pendingThinkingSignal
  THEN setState([tr EXCEPT !.pendingThinkingSignal = FALSE], CLI_THINKING)
  ELSE [tracker |-> tr, events |-> <<>>]

\* evaluateTracker
evaluateTracker(tr) ==
  IF IsPrompt(tr.buffer)
  THEN LET cleared == [tr EXCEPT !.pendingThinkingSignal = FALSE]
       IN IF tr.state = RUNNING_PROGRAM \/ tr.state = CLI_THINKING
          THEN setState(cleared, CLI_WAITING)
          ELSE [tracker |-> cleared, events |-> <<>>]
  ELSE IF tr.state = CLI_WAITING /\ tr.pendingThinkingSignal
  THEN setState([tr EXCEPT !.pendingThinkingSignal = FALSE], CLI_THINKING)
  ELSE IF tr.state = RUNNING_PROGRAM /\ tr.isInteractiveCli /\ tr.pendingThinkingSignal
  THEN setState([tr EXCEPT !.pendingThinkingSignal = FALSE], CLI_THINKING)
  ELSE [tracker |-> [tr EXCEPT !.pendingThinkingSignal = FALSE], events |-> <<>>]

\* handleDataChunk with a debounce that clears the pending evaluation timer and arms
\* a new one at every chunk
handleDataChunkRearmed(tr, chunk) ==
  LET cleaned == sanitizeTerminalData(chunk)
      hasMeaningful == hasMeaningfulOutput(cleaned)
      signal == IF tr.state = CLI_WAITING
                THEN indicatesThinkingSignal(cleaned, hasMeaningful)
                ELSE hasMeaningful
      buffered == [tr EXCEPT !.buffer = SliceLast(tr.buffer \o cleaned, BufferSize),
                             !.pendingThinkingSignal = tr.pendingThinkingSignal \/ signal,
                             !.quietTimer.quiet = ~tr.quietTimer.armed]
      probed == IF tr.isInteractiveCli
                THEN scheduleQuietProbe(buffered, tr.executionVersion)
                ELSE buffered
  IN IF cleaned = <<>> THEN tr
     ELSE [probed EXCEPT !.evaluateTimer = TRUE,
                         !.evaluateVersion = tr.executionVersion]

\* handleDataChunk on a tracker
handleDataChunk(tr, chunk) ==
  LET cleaned == sanitizeTerminalData(chunk)
      hasMeaningful == hasMeaningfulOutput(cleaned)
      signal == IF tr.state = CLI_WAITING
                THEN indicatesThinkingSignal(cleaned, hasMeaningful)
                ELSE hasMeaningful
      buffered == [tr EXCEPT !.buffer = SliceLast(tr.buffer \o cleaned, BufferSize),
                             !.pendingThinkingSignal = tr.pendingThinkingSignal \/ signal,
                             !.quietTimer.quiet = ~tr.quietTimer.armed]
      probed == IF tr.isInteractiveCli
                THEN scheduleQuietProbe(buffered, tr.executionVersion)
                ELSE buffered
  IN IF cleaned = <<>> THEN tr
     ELSE [probed EXCEPT !.evaluateTimer = TRUE,
                         !.evaluateVersion = IF tr.evaluateTimer THEN @
                                             ELSE tr.executionVersion]

\* of the words codex, claude, claude code, qwen, gemini, aider: those the alphabet spells
InteractiveCliWords == {<<"c", "o", "d", "e", "x">>}

WordCharacters == {"a", "b", "c", "d", "e", "l", "m", "o", "r", "s", "x",
                   "A", "B", "E", "M", "R", "T"}

\* looksLikeInteractiveCliCommand: \b(word)\b in the lowercased command line and name
looksLikeInteractiveCliCommand(commandLine, terminalName) ==
  LET raw == toLowerCase(commandLine \o <<" ">> \o terminalName)
  IN \E w \in InteractiveCliWords :
       \E i \in 1 .. Len(raw) - Len(w) + 1 :
         /\ SubSeq(raw, i, i + Len(w) - 1) = w
         /\ (i = 1 \/ raw[i - 1] \notin WordCharacters)
         /\ (i + Len(w) > Len(raw) \/ raw[i + Len(w)] \notin WordCharacters)

\* terminal.name
TerminalName(t) ==
  IF t = 1 THEN <<"A">>
  ELSE IF t = 2 THEN <<"B", " ", "\"", "x", "\"">>
  ELSE <<"T">>

\* the command lines an execution starts with
CommandLines == {<<"l", "s">>, <<"c", "o", "d", "e", "x">>}

\* the raw output chunks a stream delivers
Chunks ==
  { <<"x">>, <<">">>, <<"\n">>, <<"x", "\r">>, <<"x", "\n", ">">>,
    <<"ESC", "[", "1", "m">>, <<"ESC", "]", "x", "BEL", "x", ">>">> }

NoOwner == [kind |-> "none", run |-> 0, scope |-> {}]

\* what a step did: the handler that ran, its session, the state-change events it
\* fired, what it wrote, what it did to the automation status, the run whose code it
\* resumed, the arguments of the operator's call, the error thrown to the operator and
\* what the catch blocks of the runs caught: the error, the run, whether the run was
\* active, and the call of executeChain that caught it (IdleChain for a tick)
Step(op, t, events) ==
  [op |-> op, term |-> t, events |-> events, wrote |-> <<>>, effects |-> <<>>,
   resumed |-> NoOwner, args |-> <<>>, thrown |-> <<"", 0>>, caught |-> <<>>]

\* vscode.window.onDidOpenTerminal
OpenTerminal(t) ==
  /\ t \notin terminals /\ t \notin closedTerminals
  /\ terminals' = terminals \cup {t}
  /\ tracked' = tracked \cup {t}
  /\ trackers' = [trackers EXCEPT ![t] = getOrCreateTracker(t)]
  /\ last' = Step("open", t, <<>>)
  /\ UNCHANGED <<closedTerminals, activeTerminal, streams, matched, dispatchVars>>

\* vscode.window.onDidCloseTerminal: deleteTracker
\* when the foreground session closes, the window picks the next one, or has none
CloseTerminal(t) ==
  /\ t \in terminals
  /\ terminals' = terminals \ {t}
  /\ closedTerminals' = closedTerminals \cup {t}
  /\ IF activeTerminal = t
     THEN activeTerminal' \in {NoTerminal} \cup (terminals \ {t})
     ELSE activeTerminal' = activeTerminal
  /\ tracked' = tracked \ {t}
  /\ trackers' = [trackers EXCEPT ![t] = NewTracker]
  /\ matched' = [matched EXCEPT ![t] = FALSE]
  /\ last' = Step("close", t, <<>>)
  /\ UNCHANGED <<streams, disp, bcast, automationVars>>

\* handleExecutionStart on a tracker
executionStarted(tr, commandLine, terminalName) ==
  LET version == tr.executionVersion + 1
      reset == [tr EXCEPT !.executionVersion = version,
                          !.buffer = <<>>,
                          !.pendingThinkingSignal = FALSE,
                          !.isInteractiveCli =
                             looksLikeInteractiveCliCommand(commandLine, terminalName),
                          !.quietTimer = NoTimer]
      r == setState(reset, RUNNING_PROGRAM)
  IN [tracker |-> IF r.tracker.isInteractiveCli
                  THEN scheduleQuietProbe(r.tracker, version)
                  ELSE r.tracker,
      events |-> r.events]

\* handleExecutionStart
handleExecutionStart(t, commandLine) ==
  /\ t \in terminals
  /\ getOrCreateTracker(t).executionVersion < MaxVersion
  /\ LET r == executionStarted(getOrCreateTracker(t), commandLine, TerminalName(t))
     IN /\ tracked' = tracked \cup {t}
        /\ trackers' = [trackers EXCEPT ![t] = r.tracker]
        /\ streams' = [streams EXCEPT ![t] = @ \cup {r.tracker.executionVersion}]
        /\ matched' = [matched EXCEPT ![t] = FALSE]
        /\ last' = Step("executionStart", t, r.events)
  /\ UNCHANGED <<envVars, dispatchVars>>

\* handleExecutionEnd
handleExecutionEnd(t) ==
  /\ t \in terminals
  /\ getOrCreateTracker(t).executionVersion < MaxVersion
  /\ LET tr == getOrCreateTracker(t)
         reset == [tr EXCEPT !.executionVersion = tr.executionVersion + 1,
                             !.buffer = <<>>,
                             !.pendingThinkingSignal = FALSE,
                             !.isInteractiveCli = FALSE,
                             !.evaluateTimer = FALSE,
                             !.evaluateVersion = 0,
                             !.quietTimer = NoTimer]
         r == setState(reset, IDLE)
     IN /\ tracked' = tracked \cup {t}
        /\ trackers' = [trackers EXCEPT ![t] = r.tracker]
        /\ matched' = [matched EXCEPT ![t] = FALSE]
        /\ last' = Step("executionEnd", t, r.events)
  /\ UNCHANGED <<envVars, streams, dispatchVars>>

\* consumeExecutionStream: one chunk read by the consumer that captured generation v
StreamChunk(t, v, chunk) ==
  /\ v \in streams[t]
  /\ IF t \notin tracked \/ trackers[t].executionVersion # v
     THEN /\ streams' = [streams EXCEPT ![t] = @ \ {v}]
          /\ last' = [Step("staleChunk", t, <<>>) EXCEPT !.args = <<v>>]
          /\ UNCHANGED <<tracked, trackers, matched>>
     ELSE /\ trackers' = [trackers EXCEPT ![t] = handleDataChunk(@, chunk)]
          /\ matched' = [matched EXCEPT ![t] = @ \/ IsPrompt(trackers'[t].buffer)]
          /\ last' = [Step("chunk", t, <<>>) EXCEPT !.args = <<v>>]
          /\ UNCHANGED <<tracked, streams>>
  /\ UNCHANGED <<envVars, dispatchVars>>

\* the debounced evaluation timer of handleDataChunk fires
EvaluateTimerFires(t) ==
  /\ t \in tracked /\ trackers[t].evaluateTimer
  /\ LET r == evaluateTracker([trackers[t] EXCEPT !.evaluateTimer = FALSE,
                                                  !.evaluateVersion = 0])
     IN /\ trackers' = [trackers EXCEPT ![t] = r.tracker]
        /\ last' = Step("evaluate", t, r.events)
  /\ UNCHANGED <<envVars, tracked, streams, matched, dispatchVars>>

\* the quiet-probe timer fires
QuietTimerFires(t) ==
  /\ t \in tracked /\ trackers[t].quietTimer.armed
  /\ LET r == QuietProbeCallback(trackers[t])
     IN /\ trackers' = [trackers EXCEPT ![t] = r.tracker]
        /\ last' = Step("quietProbe", t, r.events)
  /\ UNCHANGED <<envVars, tracked, streams, matched, dispatchVars>>

\* TerminalStateManager.notifyInputSent, as the dispatcher calls it
InputSent(t) ==
  /\ LET r == notifyInputSent(getOrCreateTracker(t))
     IN /\ tracked' = tracked \cup {t}
        /\ trackers' = [trackers EXCEPT ![t] = r.tracker]
        /\ last' = Step("inputSent", t, r.events)
  /\ UNCHANGED <<envVars, streams, matched, dispatchVars>>

(***************************************************************************)
(* The broadcast dispatcher: Broadcaster.                                  *)
(***************************************************************************)
\* highest number of polling ticks in flight at once
MaxTicks == 2
\* highest number of executeChain continuations in flight at once
MaxChains == 2
\* highest sum of pollingRunId and chainRunId
MaxRunId == 5

TickSlots == {<<"tick", k>> : k \in 1 .. MaxTicks}

ChainSlots == {<<"chain", k>> : k \in 1 .. MaxChains}

SendSlot == <<"send", 1>>

\* the callers of dispatchResolvedCommands that can be in flight
Slots == {SendSlot} \cup TickSlots \cup ChainSlots

\* BroadcastOptions
Options(confirm, guard, keywords, waveThreshold, waveDelayMs) ==
  [requireConfirmBeforeBroadcast |-> confirm, enableSensitiveCommandGuard |-> guard,
   sensitiveKeywords |-> keywords, waveThreshold |-> waveThreshold,
   waveDelayMs |-> waveDelayMs]

NoOptions == Options(FALSE, FALSE, <<>>, 1, 0)

\* no call of dispatchResolvedCommands in flight; written and reached are history: the
\* targets sendText was called on, and those of them that were open at the call
IdleDispatch ==
  [pc |-> "idle", owner |-> NoOwner, terminals |-> <<>>, targets |-> <<>>,
   command |-> <<>>,
   options |-> NoOptions, i |-> 0, lines |-> <<>>, ln |-> 0,
   interactiveCli |-> FALSE, previousActive |-> NoTerminal,
   shouldRestorePrevious |-> FALSE, written |-> {}, reached |-> {}, ret |-> 0]

InteractiveBroadcastBehavior(skipBusyFilter, waitUntilReadyMs, allowForce) ==
  [skipBusyFilter |-> skipBusyFilter, waitUntilReadyMs |-> waitUntilReadyMs,
   allowForceAfterReadyTimeout |-> allowForce]

\* no call of broadcast in flight
IdleBroadcast ==
  [pc |-> "idle", text |-> <<>>, options |-> NoOptions,
   behavior |-> InteractiveBroadcastBehavior(FALSE, 0, FALSE),
   deduped |-> <<>>, ready |-> <<>>, candidates |-> <<>>, count |-> 0, elapsed |-> 0,
   picked |-> "none", guarded |-> "none", confirmed |-> "none", warning |-> "none",
   ret |-> 0]

\* the state the handlers read and write, and what a step wrote and fired
World ==
  [disp |-> disp, bcast |-> bcast, tracked |-> tracked, trackers |-> trackers,
   activeTerminal |-> activeTerminal, status |-> status,
   pollingTimer |-> pollingTimer, pollingRunId |-> pollingRunId,
   pollingBusy |-> pollingBusy, chainRunId |-> chainRunId, chains |-> chains,
   term |-> NoTerminal, wrote |-> <<>>, events |-> <<>>, effects |-> <<>>,
   resumed |-> NoOwner, args |-> <<>>, thrown |-> <<"", 0>>, caught |-> <<>>]

\* a step with the effects of handler result w
Commit(w, op) ==
  /\ disp' = w.disp
  /\ bcast' = w.bcast
  /\ tracked' = w.tracked
  /\ trackers' = w.trackers
  /\ activeTerminal' = w.activeTerminal
  /\ status' = w.status
  /\ pollingTimer' = w.pollingTimer
  /\ pollingRunId' = w.pollingRunId
  /\ pollingBusy' = w.pollingBusy
  /\ chainRunId' = w.chainRunId
  /\ chains' = w.chains
  /\ last' = [op |-> op, term |-> w.term, events |-> w.events, wrote |-> w.wrote,
              effects |-> w.effects, resumed |-> w.resumed, args |-> w.args,
              thrown |-> w.thrown, caught |-> w.caught]
  /\ UNCHANGED <<terminals, closedTerminals, streams, matched, sendTextThrows>>

\* [...new Set(terminals)]
RECURSIVE dedupe(_)
dedupe(seq) ==
  IF seq = <<>> THEN <<>>
  ELSE LET init == dedupe(SubSeq(seq, 1, Len(seq) - 1))
           x == seq[Len(seq)]
       IN IF \E i \in 1 .. Len(init) : init[i] = x THEN init ELSE Append(init, x)

Range(seq) == {seq[i] : i \in 1 .. Len(seq)}

\* String(index)
DecimalString(n) ==
  LET digit(k) == CASE k = 0 -> "0" [] k = 1 -> "1" [] k = 2 -> "2" [] k = 3 -> "3"
                    [] k = 4 -> "4" [] k = 5 -> "5" [] k = 6 -> "6" [] k = 7 -> "7"
                    [] k = 8 -> "8" [] OTHER -> "9"
  IN IF n < 10 THEN <<digit(n)>> ELSE <<digit(n \div 10), digit(n % 10)>>

quoteForShell(value) ==
  <<"\"">> \o replaceAll(replaceAll(value, <<"\\">>, <<"\\", "\\">>),
                         <<"\"">>, <<"\\", "\"">>) \o <<"\"">>

IndexPlaceholder == <<"{", "i", "n", "d", "e", "x", "}">>

NamePlaceholder == <<"{", "n", "a", "m", "e", "}">>

QuotedNamePlaceholder == <<"{", "n", "a", "m", "e", ":", "q", "u", "o", "t", "e", "d", "}">>

\* injectPlaceholders for a session of the name terminalName
injectPlaceholdersNamed(command, terminalName, index) ==
  replace(
    replace(replace(command, IndexPlaceholder, DecimalString(index)),
            QuotedNamePlaceholder, quoteForShell(terminalName)),
    NamePlaceholder, terminalName)

injectPlaceholders(command, t, index) ==
  injectPlaceholdersNamed(command, TerminalName(t), index)

containsSensitiveCommand(command, options) ==
  LET normalized == toLowerCase(command)
  IN \E k \in 1 .. Len(options.sensitiveKeywords) :
       LET target == toLowerCase(trim(options.sensitiveKeywords[k]))
       IN target # <<>> /\ includes(normalized, target)

\* a write that reaches session receiver, made for the target of dispatch slot s
WriteTo(w, s, receiver, kind, text) ==
  [term |-> receiver, target |-> w.disp[s].targets[w.disp[s].i], kind |-> kind,
   text |-> text, open |-> receiver \in terminals, by |-> w.disp[s].owner]

\* sendEnterKey up to its await delay(10): the openness test, terminal.show(false)
sendEnterKeyShow(w, s) ==
  LET t == w.disp[s].targets[w.disp[s].i]
  IN IF t \notin terminals
     THEN [w EXCEPT !.disp[s].pc = "lineDelay"]
     ELSE [w EXCEPT !.disp[s].previousActive = w.activeTerminal,
                    !.disp[s].shouldRestorePrevious =
                       /\ w.activeTerminal # NoTerminal
                       /\ w.activeTerminal # t
                       /\ w.activeTerminal \in terminals,
                    !.activeTerminal = t,
                    !.disp[s].pc = "enterWait"]

\* sendEnterKey from the end of delay(10): the sendSequence command delivers the
\* carriage return to the foreground session, or fails
sendEnterKeySequence(w, s, commandFails) ==
  LET t == w.disp[s].targets[w.disp[s].i]
  IN IF commandFails
     THEN [w EXCEPT !.term = t, !.disp[s].pc = "commandFailed"]
     ELSE [w EXCEPT !.wrote = IF w.activeTerminal # NoTerminal
                              THEN Append(@, WriteTo(w, s, w.activeTerminal, "enter",
                                                     <<"\r">>))
                              ELSE @,
                    !.term = t,
                    !.disp[s].pc = "commandWait"]

\* sendEnterKey after the command without previousActive.show(false)
sendEnterKeyWithoutRestore(w, s) ==
  LET d == w.disp[s]
      t == d.targets[d.i]
  IN IF d.pc = "commandFailed" /\ t \notin terminals /\ sendTextThrows
     THEN [w EXCEPT !.term = t, !.disp[s].pc = "failed"]
     ELSE [w EXCEPT !.wrote = IF d.pc = "commandFailed"
                              THEN Append(@, WriteTo(w, s, t, "enter", <<"\n">>))
                              ELSE @,
                    !.term = t,
                    !.disp[s].pc = "lineDelay"]

\* sendEnterKey after the command: terminal.sendText("", true) if it failed,
\* previousActive.show(false), then delay(16); sendText on a disposed session throws
\* out of the dispatch where the API does so
sendEnterKeyRestore(w, s) ==
  LET d == w.disp[s]
      t == d.targets[d.i]
  IN IF d.pc = "commandFailed" /\ t \notin terminals /\ sendTextThrows
     THEN [w EXCEPT !.term = t, !.disp[s].pc = "failed"]
     ELSE [w EXCEPT !.wrote = IF d.pc = "commandFailed"
                              THEN Append(@, WriteTo(w, s, t, "enter", <<"\n">>))
                              ELSE @,
                    !.activeTerminal =
                       IF d.shouldRestorePrevious /\ d.previousActive \in terminals
                       THEN d.previousActive ELSE @,
                    !.term = t,
                    !.disp[s].pc = "lineDelay"]

\* the body of the for loop of sendResolvedCommand for line ln, up to its first await;
\* sendText on a disposed session throws out of the dispatch where the API does so
sendLine(w, s) ==
  LET d == w.disp[s]
      t == d.targets[d.i]
      state == IF t \in w.tracked THEN w.trackers[t].state ELSE IDLE
      text == [w EXCEPT !.wrote = Append(@, WriteTo(w, s, t, "text", d.lines[d.ln])),
                        !.term = t,
                        !.disp[s].written = @ \cup {t},
                        !.disp[s].reached = IF t \in terminals THEN @ \cup {t} ELSE @]
  IN IF t \notin terminals /\ sendTextThrows
     THEN [w EXCEPT !.term = t, !.disp[s].pc = "failed"]
     ELSE IF d.interactiveCli /\ state = CLI_THINKING
     THEN [text EXCEPT !.wrote = Append(@, WriteTo(w, s, t, "tab", <<"\t">>)),
                       !.disp[s].pc = "afterTab"]
     ELSE sendEnterKeyShow(text, s)

\* sendResolvedCommand that reads the session's state without notifyInputSent
sendResolvedCommandUnnotified(w, s) ==
  LET d == w.disp[s]
      t == d.targets[d.i]
      command == injectPlaceholders(d.command, t, d.i)
      normalized == replaceAll(replaceAll(command, <<"\r", "\n">>, <<"\n">>),
                               <<"\r">>, <<"\n">>)
      tracker == IF t \in w.tracked THEN w.trackers[t] ELSE NewTracker
      unnotified == [w EXCEPT !.tracked = @ \cup {t},
                              !.trackers[t] = tracker,
                              !.disp[s].interactiveCli = tracker.isInteractiveCli,
                              !.disp[s].lines = splitLines(normalized),
                              !.disp[s].ln = 1]
  IN sendLine(unnotified, s)

\* sendResolvedCommand for target i, up to its first await
sendResolvedCommand(w, s) ==
  LET d == w.disp[s]
      t == d.targets[d.i]
      command == injectPlaceholders(d.command, t, d.i)
      normalized == replaceAll(replaceAll(command, <<"\r", "\n">>, <<"\n">>),
                               <<"\r">>, <<"\n">>)
      r == notifyInputSent(IF t \in w.tracked THEN w.trackers[t] ELSE NewTracker)
      notified == [w EXCEPT !.tracked = @ \cup {t},
                            !.trackers[t] = r.tracker,
                            !.events = @ \o r.events,
                            !.disp[s].interactiveCli = r.tracker.isInteractiveCli,
                            !.disp[s].lines = splitLines(normalized),
                            !.disp[s].ln = 1]
  IN sendLine(notified, s)

\* dispatchResolvedCommands: the next round of its loop, or its return
nextTarget(w, s) ==
  LET d == w.disp[s]
  IN IF d.i < Len(d.targets)
     THEN sendResolvedCommand([w EXCEPT !.disp[s].i = @ + 1], s)
     ELSE [w EXCEPT !.disp[s].pc = "done", !.disp[s].ret = Len(d.targets)]

\* the loop of dispatchResolvedCommands without its wave delay
afterSendWithoutDelay(w, s) == nextTarget(w, s)

\* dispatchResolvedCommands after a target's sendResolvedCommand: the wave delay
afterSend(w, s) ==
  LET d == w.disp[s]
      waveThreshold == IF d.options.waveThreshold > 1 THEN d.options.waveThreshold ELSE 1
      waveDelayMs == IF d.options.waveDelayMs > 0 THEN d.options.waveDelayMs ELSE 0
      useWave == Len(d.targets) > waveThreshold
  IN IF d.i < Len(d.targets) /\ useWave /\ waveDelayMs > 0
     THEN [w EXCEPT !.disp[s].pc = "waveDelay"]
     ELSE nextTarget(w, s)

\* sendResolvedCommand from the end of delay(16): the next line, or the return
afterLineDelay(w, s) ==
  LET d == w.disp[s]
  IN IF d.ln < Len(d.lines)
     THEN sendLine([w EXCEPT !.disp[s].ln = @ + 1], s)
     ELSE afterSend(w, s)

\* dispatchResolvedCommands(targets, command, options), up to its first await
dispatchResolvedCommands(w, s, owner, targets, command, options) ==
  LET started == [w EXCEPT !.disp[s] =
                    [IdleDispatch EXCEPT !.owner = owner, !.terminals = targets,
                                         !.targets = targets, !.command = command,
                                         !.options = options]]
  IN nextTarget(started, s)

\* broadcastNonInteractive that sends nothing when the keyword guard of the options is
\* enabled and the command holds a keyword
broadcastNonInteractiveGuarded(w, s, owner, terminalList, command, options, readyOnly) ==
  LET text == trim(command)
      deduped == dedupe(terminalList)
      candidates ==
        IF readyOnly
        THEN SelectSeq(deduped,
                       LAMBDA t : isReadyState(IF t \in w.tracked THEN w.trackers[t].state
                                               ELSE IDLE))
        ELSE deduped
      returned == [w EXCEPT !.disp[s] =
                     [IdleDispatch EXCEPT !.owner = owner, !.terminals = terminalList,
                                          !.pc = "done", !.ret = 0]]
  IN IF text = <<>> \/ Len(terminalList) = 0 \/ Len(candidates) = 0
     THEN returned
     ELSE IF options.enableSensitiveCommandGuard /\ containsSensitiveCommand(text, options)
     THEN returned
     ELSE [dispatchResolvedCommands(w, s, owner, candidates, text, options)
             EXCEPT !.disp[s].terminals = terminalList]

\* broadcastNonInteractive(terminals, command, options, {readyOnly}), up to its first
\* await
broadcastNonInteractive(w, s, owner, terminalList, command, options, readyOnly) ==
  LET text == trim(command)
      deduped == dedupe(terminalList)
      candidates ==
        IF readyOnly
        THEN SelectSeq(deduped,
                       LAMBDA t : isReadyState(IF t \in w.tracked THEN w.trackers[t].state
                                               ELSE IDLE))
        ELSE deduped
      returned == [w EXCEPT !.disp[s] =
                     [IdleDispatch EXCEPT !.owner = owner, !.terminals = terminalList,
                                          !.pc = "done", !.ret = 0]]
  IN IF text = <<>> \/ Len(terminalList) = 0 \/ Len(candidates) = 0
     THEN returned
     ELSE [dispatchResolvedCommands(w, s, owner, candidates, text, options)
             EXCEPT !.disp[s].terminals = terminalList]

\* the poll interval of waitForReadyCandidates, in ms
READY_WAIT_POLL_MS == 120

\* the ready filter of waitForReadyCandidates without vscode.window.terminals.includes
readyCandidatesOfAnySession(w, candidates) ==
  SelectSeq(candidates,
            LAMBDA t : isReadyState(IF t \in w.tracked THEN w.trackers[t].state
                                    ELSE IDLE))

\* the candidates that are open and ready, as waitForReadyCandidates filters them
readyCandidatesOf(w, candidates) ==
  SelectSeq(candidates,
            LAMBDA t : /\ t \in terminals
                       /\ isReadyState(IF t \in w.tracked THEN w.trackers[t].state
                                       ELSE IDLE))

\* the warnings of broadcast
NoReadyWarning == "No ready terminal available for broadcast."

SomeBusyWarning == "Some terminals are still busy after waiting."

\* broadcast after its ready-wait without the forced fallback
broadcastDispatchReady(w, waited) ==
  LET b == w.bcast
  IN IF Len(waited) = 0
     THEN [w EXCEPT !.bcast.pc = "returned", !.bcast.ret = 0,
                    !.bcast.warning = NoReadyWarning]
     ELSE dispatchResolvedCommands(
            [w EXCEPT !.bcast.pc = "dispatching",
                      !.bcast.warning = IF Len(waited) < Len(b.candidates)
                                        THEN SomeBusyWarning ELSE @],
            SendSlot, [kind |-> "send", run |-> 0, scope |-> Range(b.deduped)],
            waited, b.text, b.options)

\* broadcast after its ready-wait: the forced fallback, the warning, the dispatch
broadcastDispatch(w, waited) ==
  LET b == w.bcast
      readyCandidates ==
        IF b.behavior.allowForceAfterReadyTimeout /\ Len(waited) < Len(b.candidates)
        THEN b.candidates ELSE waited
  IN IF Len(readyCandidates) = 0
     THEN [w EXCEPT !.bcast.pc = "returned", !.bcast.ret = 0,
                    !.bcast.warning = NoReadyWarning]
     ELSE dispatchResolvedCommands(
            [w EXCEPT !.bcast.pc = "dispatching",
                      !.bcast.warning = IF Len(readyCandidates) < Len(b.candidates)
                                        THEN SomeBusyWarning ELSE @],
            SendSlot, [kind |-> "send", run |-> 0, scope |-> Range(b.deduped)],
            readyCandidates, b.text, b.options)

\* waitForReadyCandidates: one round of its loop at the elapsed time of the call
waitForReadyCandidates(w) ==
  LET b == w.bcast
      ready == readyCandidatesOf(w, b.candidates)
  IN IF b.elapsed < b.behavior.waitUntilReadyMs
     THEN IF Len(ready) = Len(b.candidates)
          THEN broadcastDispatch(w, ready)
          ELSE [w EXCEPT !.bcast.pc = "readyWait"]
     ELSE broadcastDispatch(w, ready)

\* broadcast after confirmBroadcast returned true
afterConfirm(w) ==
  LET waitMs == IF w.bcast.behavior.waitUntilReadyMs > 0
                THEN w.bcast.behavior.waitUntilReadyMs ELSE 0
  IN IF waitMs > 0
     THEN waitForReadyCandidates([w EXCEPT !.bcast.elapsed = 0])
     ELSE broadcastDispatch(w, w.bcast.candidates)

\* confirmBroadcast from its test of requireConfirmBeforeBroadcast
confirmSend(w) ==
  IF w.bcast.options.requireConfirmBeforeBroadcast
  THEN [w EXCEPT !.bcast.pc = "confirmPrompt"]
  ELSE afterConfirm(w)

\* confirmBroadcast without its keyword guard
confirmBroadcastUnguarded(w) ==
  confirmSend(w)

\* confirmBroadcast(count, command, options) from its start
confirmBroadcast(w) ==
  IF /\ w.bcast.options.enableSensitiveCommandGuard
     /\ containsSensitiveCommand(w.bcast.text, w.bcast.options)
  THEN [w EXCEPT !.bcast.pc = "guardPrompt"]
  ELSE confirmSend(w)

\* broadcast from the candidates the busy filter returned
afterBusyFilter(w, candidates) ==
  IF Len(candidates) = 0
  THEN [w EXCEPT !.bcast.candidates = candidates, !.bcast.pc = "returned",
                 !.bcast.ret = 0]
  ELSE confirmBroadcast([w EXCEPT !.bcast.candidates = candidates,
                                  !.bcast.count = Len(candidates)])

\* broadcast(terminals, command, options, behavior), up to its first await
broadcast(w, terminalList, command, options, behavior) ==
  LET text == trim(command)
      deduped == dedupe(terminalList)
      ready == SelectSeq(deduped, LAMBDA t : isReadyState(getState(t)))
      called == [w EXCEPT !.bcast = [IdleBroadcast EXCEPT !.text = text,
                                                          !.options = options,
                                                          !.behavior = behavior,
                                                          !.deduped = deduped,
                                                          !.ready = ready]]
  IN IF text = <<>> \/ Len(terminalList) = 0
     THEN [called EXCEPT !.bcast.pc = "returned", !.bcast.ret = 0]
     ELSE IF behavior.skipBusyFilter
     THEN afterBusyFilter(called, deduped)
     ELSE IF Len(ready) = Len(deduped)
     THEN afterBusyFilter(called, deduped)
     ELSE [called EXCEPT !.bcast.pc = "busyPrompt"]

\* filterBusyTerminals answering "Send Ready" like "Force Send"
filterBusyTerminalsPickedAll(w, picked) ==
  LET chosen == [w EXCEPT !.bcast.picked = picked]
  IN IF picked \in {"Force Send", "Send Ready"}
     THEN afterBusyFilter(chosen, w.bcast.deduped)
     ELSE afterBusyFilter(chosen, <<>>)

\* filterBusyTerminals from the answer to its modal prompt
filterBusyTerminalsPicked(w, picked) ==
  LET b == w.bcast
      chosen == [w EXCEPT !.bcast.picked = picked]
  IN IF picked = "Force Send" THEN afterBusyFilter(chosen, b.deduped)
     ELSE IF picked = "Send Ready" THEN afterBusyFilter(chosen, b.ready)
     ELSE afterBusyFilter(chosen, <<>>)

(***************************************************************************)
(* TaskAutomationManager: the polling run and the chain run.               *)
(***************************************************************************)
\* the slice of waitWithCancel and the poll interval of waitForReadyState, in ms
READY_PROBE_INTERVAL_MS == 200

\* an error and the 1-based step it names, 0 for none
NoError == <<"", 0>>

\* the message of the error Terminal.sendText throws on a disposed session
DisposedError == <<"Terminal has already been disposed", 0>>

\* the initial value of TaskAutomationManager.status
IdleStatus ==
  [polling |-> [active |-> FALSE, command |-> <<>>, intervalMs |-> 5000,
                targetCount |-> 0, lastSentCount |-> 0, error |-> NoError],
   chain |-> [active |-> FALSE, currentStep |-> 0, totalSteps |-> 0, targetCount |-> 0,
              detail |-> "", error |-> NoError]]

\* no interval timer
NoPollingTimer ==
  [armed |-> FALSE, runId |-> 0, targets |-> <<>>, text |-> <<>>, options |-> NoOptions]

\* a step.timeoutMs that is undefined
NoTimeout == -1

\* ChainStep
CommandStep(command, sourceLine) ==
  [kind |-> "command", command |-> command, delayMs |-> 0, stableMs |-> 0,
   timeoutMs |-> NoTimeout, sourceLine |-> sourceLine]

DelayStep(delayMs, sourceLine) ==
  [kind |-> "delay", command |-> <<>>, delayMs |-> delayMs, stableMs |-> 0,
   timeoutMs |-> NoTimeout, sourceLine |-> sourceLine]

WaitReadyStep(stableMs, timeoutMs, sourceLine) ==
  [kind |-> "waitReady", command |-> <<>>, delayMs |-> 0, stableMs |-> stableMs,
   timeoutMs |-> timeoutMs, sourceLine |-> sourceLine]

\* a terminal that has no entry in the readySince map
NotReadySince == -1

\* no call of executeChain in flight
IdleChain ==
  [pc |-> "idle", runId |-> 0, terminals |-> <<>>, steps |-> <<>>,
   defaultWaitTimeoutMs |-> 0, options |-> NoOptions, stepIndex |-> 0,
   remaining |-> 0, waitTargets |-> <<>>, elapsed |-> 0,
   readySince |-> [t \in AllTerminals |-> NotReadySince]]

\* the code that changes the status: the operator's call, or a run's continuation
Operator == [kind |-> "operator", run |-> 0, scope |-> {}]

PollingRun(runId, targets) ==
  [kind |-> "polling", run |-> runId, scope |-> Range(targets)]

ChainRun(ch) == [kind |-> "chain", run |-> ch.runId, scope |-> Range(ch.terminals)]

\* emitStatus, called by the code of by
emitStatus(w, by) ==
  [w EXCEPT !.effects = Append(@, [what |-> "emit", by |-> by])]

\* this.status = { ... } followed by this.emitStatus(), in the code of by
assignStatus(w, value, by) ==
  emitStatus([w EXCEPT !.status = value,
                       !.effects = Append(@, [what |-> "status", by |-> by,
                                              value |-> value])], by)

dedupeTerminals(terminalList) == dedupe(terminalList)

getOpenTerminals(terminalList) == SelectSeq(terminalList, LAMBDA t : t \in terminals)

describeStep(step) ==
  CASE step.kind = "command" -> "Command"
    [] step.kind = "delay" -> "Delay"
    [] OTHER -> "Wait ready"

(***************************************************************************)
(* The task-chain script: parseChainScript.                                *)
(***************************************************************************)
\* a parse error and the 1-based line it names
ParseError(message, sourceLine) == <<message, sourceLine>>

\* s.split(sep) for a one-character separator
RECURSIVE split(_, _)
split(s, sep) ==
  LET at == FindFrom(s, 1, {sep})
  IN IF at = 0 THEN <<s>>
     ELSE <<SubSeq(s, 1, at - 1)>> \o split(SubSeq(s, at + 1, Len(s)), sep)

\* script.split(/\r?\n/): a carriage return before a line feed belongs to the break
splitScript(script) ==
  LET pieces == split(script, "\n")
  IN [i \in 1 .. Len(pieces) |->
        IF i < Len(pieces) /\ pieces[i] # <<>> /\ pieces[i][Len(pieces[i])] = "\r"
        THEN SubSeq(pieces[i], 1, Len(pieces[i]) - 1)
        ELSE pieces[i]]

Digits == {"0", "1", "2", "3", "4", "5", "6", "7", "8", "9"}

\* [a-z_] under the i flag, on the model's alphabet
KeyCharacters ==
  {"a", "b", "c", "d", "e", "f", "g", "h", "i", "j", "k", "l", "m", "n", "o", "p", "q",
   "r", "s", "t", "u", "v", "w", "x", "y", "z", "_", "A", "B", "D", "E", "L", "M", "R",
   "T", "Y"}

\* Number(text) for a text of decimal digits
RECURSIVE Number(_)
Number(text) ==
  IF text = <<>> THEN 0
  ELSE 10 * Number(SubSeq(text, 1, Len(text) - 1))
       + (CHOOSE d \in 0 .. 9 : DecimalString(d) = <<text[Len(text)]>>)

\* /^\d+$/.test(text)
IsDigits(text) == text # <<>> /\ \A i \in 1 .. Len(text) : text[i] \in Digits

WAIT_READY == <<"w", "a", "i", "t", "_", "r", "e", "a", "d", "y">>

WAIT_IDLE == <<"w", "a", "i", "t", "_", "i", "d", "l", "e">>

DELAY == <<"d", "e", "l", "a", "y">>

TIMEOUT == <<"t", "i", "m", "e", "o", "u", "t">>

\* line.match(/^(wait_ready|wait_idle|delay)\s*:\s*(.+)$/i) and, for a line without
\* that match, /^(wait_ready|wait_idle|delay)\s*:/i.test(line): the name in lower case
\* and the trimmed second group
plainDirective(line) ==
  LET names == {n \in {WAIT_READY, WAIT_IDLE, DELAY} : StartsAt(toLowerCase(line), 1, n)}
      name == CHOOSE n \in names : TRUE
      colon == SkipWhile(line, Len(name) + 1, Whitespace)
      value == SkipWhile(line, colon + 1, Whitespace)
      rest == SubSeq(line, value, Len(line))
  IN IF names = {} \/ colon > Len(line) \/ line[colon] # ":"
     THEN [match |-> "none", name |-> <<>>, rawValue |-> <<>>]
     ELSE IF rest = <<>> \/ \E i \in 1 .. Len(rest) : rest[i] \in {"\n", "\r"}
     THEN [match |-> "prefix", name |-> name, rawValue |-> <<>>]
     ELSE [match |-> "full", name |-> name, rawValue |-> trim(rest)]

\* directiveToken with the length of the digits for their number
directiveTokenLength(segment) ==
  LET keyEnd == SkipWhile(segment, 1, KeyCharacters)
      colon == SkipWhile(segment, keyEnd, Whitespace)
      value == SkipWhile(segment, colon + 1, Whitespace)
      digits == SubSeq(segment, value, Len(segment))
  IN IF keyEnd = 1 \/ colon > Len(segment) \/ segment[colon] # ":" \/ ~IsDigits(digits)
     THEN [match |-> FALSE, key |-> <<>>, value |-> 0]
     ELSE [match |-> TRUE, key |-> toLowerCase(SubSeq(segment, 1, keyEnd - 1)),
           value |-> Len(digits)]

\* segment.match(/^([a-z_]+)\s*:\s*(\d+)$/i): the key in lower case and the value
directiveToken(segment) ==
  LET keyEnd == SkipWhile(segment, 1, KeyCharacters)
      colon == SkipWhile(segment, keyEnd, Whitespace)
      value == SkipWhile(segment, colon + 1, Whitespace)
      digits == SubSeq(segment, value, Len(segment))
  IN IF keyEnd = 1 \/ colon > Len(segment) \/ segment[colon] # ":" \/ ~IsDigits(digits)
     THEN [match |-> FALSE, key |-> <<>>, value |-> 0]
     ELSE [match |-> TRUE, key |-> toLowerCase(SubSeq(segment, 1, keyEnd - 1)),
           value |-> Number(digits)]

\* fields.set(key, value) on a Map kept as the sequence of its entries
mapSet(fields, key, value) ==
  IF \E i \in 1 .. Len(fields) : fields[i][1] = key
  THEN [i \in 1 .. Len(fields) |->
          IF fields[i][1] = key THEN <<key, value>> ELSE fields[i]]
  ELSE Append(fields, <<key, value>>)

mapHas(fields, key) == \E i \in 1 .. Len(fields) : fields[i][1] = key

mapGet(fields, key) == (CHOOSE i \in 1 .. Len(fields) : fields[i][1] = key)

\* parseDirectiveFields: its loop over the segments from segment i
RECURSIVE parseDirectiveSegments(_, _, _, _)
parseDirectiveSegments(segments, i, fields, sourceLine) ==
  IF i > Len(segments) THEN [fields |-> fields, error |-> NoError]
  ELSE LET pair == directiveToken(segments[i])
       IN IF ~pair.match
          THEN [fields |-> <<>>,
                error |-> ParseError("invalid directive token", sourceLine)]
          ELSE parseDirectiveSegments(segments, i + 1,
                                      mapSet(fields, pair.key, pair.value), sourceLine)

parseDirectiveFields(content, sourceLine) ==
  LET parts == split(content, ",")
      trimmed == [i \in 1 .. Len(parts) |-> trim(parts[i])]
      segments == SelectSeq(trimmed, LAMBDA part : Len(part) > 0)
  IN IF Len(segments) = 0
     THEN [fields |-> <<>>, error |-> ParseError("empty directive", sourceLine)]
     ELSE parseDirectiveSegments(segments, 1, <<>>, sourceLine)

\* ensureOnlyKeys: the error it throws, NoError if it throws none
ensureOnlyKeys(fields, allowList, sourceLine) ==
  IF \E i \in 1 .. Len(fields) : fields[i][1] \notin allowList
  THEN ParseError("is not allowed here", sourceLine)
  ELSE NoError

\* parseChainScript: the body of its loop for one line: the step pushed (or none) and
\* the error thrown (or none)
parseChainLine(rawLine, sourceLine) ==
  LET line == trim(rawLine)
      none == <<>>
      plain == plainDirective(line)
      parsedFields == parseDirectiveFields(SubSeq(line, 2, Len(line) - 1), sourceLine)
      fields == parsedFields.fields
      valueOf(key) == fields[mapGet(fields, key)][2]
      hasWaitReady == mapHas(fields, WAIT_READY)
      hasWaitIdle == mapHas(fields, WAIT_IDLE)
      timeoutMs == IF mapHas(fields, TIMEOUT) THEN valueOf(TIMEOUT) ELSE NoTimeout
  IN IF line = <<>> \/ line[1] = "#" THEN [steps |-> none, error |-> NoError]
     ELSE IF plain.match = "full"
     THEN IF ~IsDigits(plain.rawValue)
          THEN [steps |-> none, error |-> ParseError("invalid value", sourceLine)]
          ELSE IF plain.name = DELAY
          THEN [steps |-> <<DelayStep(Number(plain.rawValue), sourceLine)>>,
                error |-> NoError]
          ELSE [steps |-> <<WaitReadyStep(Number(plain.rawValue), NoTimeout, sourceLine)>>,
                error |-> NoError]
     ELSE IF plain.match = "prefix"
     THEN [steps |-> none, error |-> ParseError("invalid directive syntax", sourceLine)]
     ELSE IF line[1] = "{" /\ line[Len(line)] = "}"
     THEN IF parsedFields.error # NoError
          THEN [steps |-> none, error |-> parsedFields.error]
          ELSE IF mapHas(fields, DELAY)
          THEN IF ensureOnlyKeys(fields, {DELAY}, sourceLine) # NoError
               THEN [steps |-> none,
                     error |-> ensureOnlyKeys(fields, {DELAY}, sourceLine)]
               ELSE [steps |-> <<DelayStep(valueOf(DELAY), sourceLine)>>,
                     error |-> NoError]
          ELSE IF hasWaitReady \/ hasWaitIdle
          THEN IF hasWaitReady /\ hasWaitIdle
               THEN [steps |-> none,
                     error |-> ParseError("wait_ready and wait_idle cannot be used together",
                                          sourceLine)]
               ELSE IF ensureOnlyKeys(fields, {WAIT_READY, WAIT_IDLE, TIMEOUT},
                                      sourceLine) # NoError
               THEN [steps |-> none,
                     error |-> ensureOnlyKeys(fields, {WAIT_READY, WAIT_IDLE, TIMEOUT},
                                              sourceLine)]
               ELSE IF timeoutMs # NoTimeout /\ timeoutMs < 1000
               THEN [steps |-> none,
                     error |-> ParseError("timeout must be >= 1000ms", sourceLine)]
               ELSE [steps |-> <<WaitReadyStep(IF hasWaitReady THEN valueOf(WAIT_READY)
                                               ELSE valueOf(WAIT_IDLE),
                                               timeoutMs, sourceLine)>>,
                     error |-> NoError]
          ELSE [steps |-> none, error |-> ParseError("unknown directive", sourceLine)]
     ELSE [steps |-> <<CommandStep(rawLine, sourceLine)>>, error |-> NoError]

\* parseChainScript: its loop from line index + 1, with the steps pushed so far
RECURSIVE parseChainLines(_, _, _)
parseChainLines(lines, index, steps) ==
  IF index >= Len(lines) THEN [steps |-> steps, error |-> NoError]
  ELSE LET r == parseChainLine(lines[index + 1], index + 1)
       IN IF r.error # NoError THEN [steps |-> <<>>, error |-> r.error]
          ELSE parseChainLines(lines, index + 1, steps \o r.steps)

\* parseChainScript: the steps it returns, or the error it throws
parseChainScript(script) == parseChainLines(splitScript(script), 0, <<>>)

\* isPollingRunActive without the comparison of the run id
isPollingRunActiveAnyRun(w, runId) ==
  w.status.polling.active

isPollingRunActive(w, runId) ==
  w.status.polling.active /\ runId = w.pollingRunId

isChainRunActive(w, runId) ==
  w.status.chain.active /\ runId = w.chainRunId

stopPollingTimerOnly(w) ==
  [w EXCEPT !.pollingTimer = NoPollingTimer]

stopPolling(w) ==
  LET stopped == [stopPollingTimerOnly(w) EXCEPT !.pollingRunId = @ + 1,
                                                 !.pollingBusy = FALSE]
  IN assignStatus(stopped, [stopped.status EXCEPT !.polling.active = FALSE], Operator)

\* stopChain that stops the polling run as well
stopChainAndPolling(w) ==
  LET stopped == [stopPolling(w) EXCEPT !.chainRunId = @ + 1]
  IN assignStatus(stopped,
                  [stopped.status EXCEPT
                     !.chain.active = FALSE,
                     !.chain.detail = IF w.status.chain.error # NoError
                                      THEN @ ELSE "Stopped"],
                  Operator)

stopChain(w) ==
  LET stopped == [w EXCEPT !.chainRunId = @ + 1]
  IN assignStatus(stopped,
                  [stopped.status EXCEPT
                     !.chain.active = FALSE,
                     !.chain.detail = IF w.status.chain.error # NoError
                                      THEN @ ELSE "Stopped"],
                  Operator)

\* the catch block of tick without its call of stopPollingTimerOnly
tickCatchKeepsTimer(w, by, error) ==
  LET noted == [w EXCEPT !.caught = Append(@, [error |-> error, by |-> by,
                                               active |-> isPollingRunActive(w, by.run),
                                               frame |-> IdleChain])]
      caught ==
        IF ~isPollingRunActive(w, by.run) THEN noted
        ELSE assignStatus(noted, [w.status EXCEPT !.polling.active = FALSE,
                                                  !.polling.error = error], by)
  IN [caught EXCEPT !.pollingBusy = FALSE]

\* tick: its catch block and its finally block
tickCatch(w, by, error) ==
  LET noted == [w EXCEPT !.caught = Append(@, [error |-> error, by |-> by,
                                               active |-> isPollingRunActive(w, by.run),
                                               frame |-> IdleChain])]
      caught ==
        IF ~isPollingRunActive(w, by.run) THEN noted
        ELSE stopPollingTimerOnly(
               assignStatus(noted, [w.status EXCEPT !.polling.active = FALSE,
                                                    !.polling.error = error], by))
  IN [caught EXCEPT !.pollingBusy = FALSE]

\* tick from the end of its await of broadcastNonInteractive in slot s
tickReturns(w, s) ==
  LET d == w.disp[s]
      resumed == [w EXCEPT !.disp[s] = IdleDispatch, !.resumed = d.owner]
  IN IF d.pc = "failed" THEN tickCatch(resumed, d.owner, DisposedError)
     ELSE IF ~isPollingRunActive(resumed, d.owner.run)
     THEN [resumed EXCEPT !.pollingBusy = FALSE]
     ELSE [assignStatus(resumed,
                        [resumed.status EXCEPT !.polling.targetCount = Len(d.terminals),
                                               !.polling.lastSentCount = d.ret,
                                               !.polling.error = NoError],
                        d.owner)
             EXCEPT !.pollingBusy = FALSE]

\* tick of the run runId, whose dispatch takes slot s
tick(w, s, runId, targets, text, options) ==
  IF ~isPollingRunActive(w, runId) \/ w.pollingBusy THEN w
  ELSE LET busy == [w EXCEPT !.pollingBusy = TRUE]
           activeTargets == getOpenTerminals(targets)
           by == PollingRun(runId, targets)
       IN IF Len(activeTargets) = 0
          THEN tickCatch(busy, by, <<"All polling targets are closed.", 0>>)
          ELSE LET sent == broadcastNonInteractive(busy, s, by, activeTargets, text,
                                                   options, FALSE)
               IN IF sent.disp[s].pc \in {"done", "failed"}
                  THEN tickReturns(sent, s) ELSE sent

\* startPolling(terminals, command, intervalMs, options); its first tick takes slot s
startPolling(w, s, terminalList, command, intervalMs, options) ==
  LET text == trim(command)
      targets == dedupeTerminals(terminalList)
      normalizedInterval == IF intervalMs > 500 THEN intervalMs ELSE 500
      stopped == stopPolling(w)
      runId == stopped.pollingRunId + 1
      started ==
        assignStatus([stopped EXCEPT !.pollingRunId = runId],
                     [stopped.status EXCEPT
                        !.polling = [active |-> TRUE, command |-> text,
                                     intervalMs |-> normalizedInterval,
                                     targetCount |-> Len(targets), lastSentCount |-> 0,
                                     error |-> NoError]],
                     Operator)
      timed == [started EXCEPT !.pollingTimer =
                  [armed |-> TRUE, runId |-> runId, targets |-> targets,
                   text |-> text, options |-> options]]
  IN IF text = <<>>
     THEN [w EXCEPT !.thrown = <<"Polling command cannot be empty.", 0>>]
     ELSE IF Len(targets) = 0
     THEN [w EXCEPT !.thrown = <<"Select at least one target terminal first.", 0>>]
     ELSE tick(timed, s, runId, targets, text, options)

RECURSIVE executeChainLoop(_, _)

\* executeChain returns
executeChainReturn(w, c) ==
  [w EXCEPT !.chains[c] = IdleChain]

\* executeChain: its catch block
executeChainCatch(w, c, error) ==
  LET ch == w.chains[c]
      noted == [w EXCEPT !.caught = Append(@, [error |-> error, by |-> ChainRun(ch),
                                               active |-> isChainRunActive(w, ch.runId),
                                               frame |-> ch])]
  IN executeChainReturn(
       IF ~isChainRunActive(w, ch.runId) THEN noted
       ELSE assignStatus(noted, [w.status EXCEPT !.chain.active = FALSE,
                                                 !.chain.error = error,
                                                 !.chain.detail = "Failed"],
                         ChainRun(ch)),
       c)

\* executeChain after its loop
executeChainCompleted(w, c) ==
  LET ch == w.chains[c]
  IN executeChainReturn(
       IF ~isChainRunActive(w, ch.runId) THEN w
       ELSE assignStatus(w, [w.status EXCEPT !.chain.active = FALSE,
                                             !.chain.detail = "Completed"],
                         ChainRun(ch)),
       c)

\* a loop that steps over the step after the one that finished
executeChainSkip(w, c) ==
  executeChainLoop([w EXCEPT !.chains[c].stepIndex = @ + 2], c)

\* executeChain at continue: the next round of its loop
executeChainContinue(w, c) ==
  executeChainLoop([w EXCEPT !.chains[c].stepIndex = @ + 1], c)

\* executeChain from the end of its await of broadcastNonInteractive in slot c
executeChainSent(w, c) ==
  LET d == w.disp[c]
      resumed == [w EXCEPT !.disp[c] = IdleDispatch, !.resumed = d.owner]
  IN IF d.pc = "failed" THEN executeChainCatch(resumed, c, DisposedError)
     ELSE IF d.ret = 0
     THEN executeChainCatch(resumed, c, <<"sent nothing", w.chains[c].stepIndex + 1>>)
     ELSE executeChainContinue(resumed, c)

\* waitWithCancel without its test of the run before a slice
waitWithCancelUnchecked(w, c) ==
  IF w.chains[c].remaining > 0
  THEN [w EXCEPT !.chains[c].pc = "delay"]
  ELSE executeChainContinue(w, c)

\* waitWithCancel: its loop with `remaining` left
waitWithCancel(w, c) ==
  LET ch == w.chains[c]
  IN IF ch.remaining > 0
     THEN IF ~isChainRunActive(w, ch.runId)
          THEN executeChainCatch(w, c, <<"Chain stopped.", 0>>)
          ELSE [w EXCEPT !.chains[c].pc = "delay"]
     ELSE executeChainContinue(w, c)

\* the timeout of a wait step that ignores the step's own timeout
effectiveTimeoutMsDefaultOnly(step, defaultWaitTimeoutMs) ==
  defaultWaitTimeoutMs

\* step.timeoutMs ?? defaultWaitTimeoutMs, the argument executeChain passes on
effectiveTimeoutMs(step, defaultWaitTimeoutMs) ==
  IF step.timeoutMs # NoTimeout THEN step.timeoutMs ELSE defaultWaitTimeoutMs

\* waitForReadyState: one round of its loop, `elapsed` after startAt
waitForReadyState(w, c) ==
  LET ch == w.chains[c]
      step == ch.steps[ch.stepIndex + 1]
      timeoutMs == effectiveTimeoutMs(step, ch.defaultWaitTimeoutMs)
      activeTargets == getOpenTerminals(ch.waitTargets)
      now == ch.elapsed
      readySince ==
        [t \in AllTerminals |->
           IF t \notin Range(activeTargets) THEN ch.readySince[t]
           ELSE IF isReadyState(IF t \in w.tracked THEN w.trackers[t].state ELSE IDLE)
           THEN IF ch.readySince[t] = NotReadySince THEN now ELSE ch.readySince[t]
           ELSE NotReadySince]
      allStable == \A t \in Range(activeTargets) :
                     readySince[t] # NotReadySince /\ now - readySince[t] >= step.stableMs
      probed == [w EXCEPT !.chains[c].readySince = readySince]
  IN IF ~isChainRunActive(w, ch.runId)
     THEN executeChainCatch(w, c, <<"Chain stopped.", 0>>)
     ELSE IF Len(activeTargets) = 0
     THEN executeChainCatch(w, c, <<"All chain targets are closed.", 0>>)
     ELSE IF allStable THEN executeChainContinue(probed, c)
     ELSE IF now > timeoutMs
     THEN executeChainCatch(probed, c, <<"wait_ready timed out", ch.stepIndex + 1>>)
     ELSE [probed EXCEPT !.chains[c].pc = "waitReady"]

\* executeChain: the round of its loop for steps[stepIndex]
executeChainLoop(w, c) ==
  LET ch == w.chains[c]
  IN IF ch.stepIndex >= Len(ch.steps) THEN executeChainCompleted(w, c)
     ELSE IF ~isChainRunActive(w, ch.runId) THEN executeChainReturn(w, c)
     ELSE
       LET step == ch.steps[ch.stepIndex + 1]
           marked == assignStatus(w, [w.status EXCEPT
                                        !.chain.currentStep = ch.stepIndex + 1,
                                        !.chain.detail = describeStep(step)],
                                  ChainRun(ch))
           activeTargets == getOpenTerminals(ch.terminals)
       IN IF Len(activeTargets) = 0
          THEN executeChainCatch(marked, c, <<"All chain targets are closed.", 0>>)
          ELSE IF step.kind = "command"
          THEN LET sent == broadcastNonInteractive(
                             [marked EXCEPT !.chains[c].pc = "dispatching"], c,
                             ChainRun(ch), activeTargets, step.command, ch.options,
                             FALSE)
               IN IF sent.disp[c].pc \in {"done", "failed"}
                  THEN executeChainSent(sent, c) ELSE sent
          ELSE IF step.kind = "delay"
          THEN waitWithCancel(
                 [marked EXCEPT !.chains[c].remaining =
                    IF step.delayMs > 0 THEN step.delayMs ELSE 0], c)
          ELSE waitForReadyState(
                 [marked EXCEPT !.chains[c].waitTargets = activeTargets,
                                !.chains[c].elapsed = 0,
                                !.chains[c].readySince =
                                   [t \in AllTerminals |-> NotReadySince]], c)

\* startChain from the return of parseChainScript, which gave or threw `parsed`;
\* executeChain takes slot c
startChainParsed(w, c, terminalList, parsed, defaultWaitTimeoutMs, options) ==
  LET steps == parsed.steps
      targets == dedupeTerminals(terminalList)
      normalizedDefaultTimeout ==
        IF defaultWaitTimeoutMs > 1000 THEN defaultWaitTimeoutMs ELSE 1000
      stopped == stopChain(w)
      runId == stopped.chainRunId + 1
      started ==
        assignStatus([stopped EXCEPT !.chainRunId = runId],
                     [stopped.status EXCEPT
                        !.chain = [active |-> TRUE, currentStep |-> 0,
                                   totalSteps |-> Len(steps),
                                   targetCount |-> Len(targets), detail |-> "Running",
                                   error |-> NoError]],
                     Operator)
      called == [started EXCEPT !.chains[c] =
                   [IdleChain EXCEPT !.pc = "running", !.runId = runId,
                                     !.terminals = targets, !.steps = steps,
                                     !.defaultWaitTimeoutMs = normalizedDefaultTimeout,
                                     !.options = options]]
  IN IF parsed.error # NoError THEN [w EXCEPT !.thrown = parsed.error]
     ELSE IF Len(steps) = 0 THEN [w EXCEPT !.thrown = <<"Task chain is empty.", 0>>]
     ELSE IF Len(targets) = 0
     THEN [w EXCEPT !.thrown = <<"Select at least one target terminal first.", 0>>]
     ELSE executeChainLoop(called, c)

\* startChain(terminals, script, defaultWaitTimeoutMs, options)
startChain(w, c, terminalList, script, defaultWaitTimeoutMs, options) ==
  startChainParsed(w, c, terminalList, parseChainScript(script), defaultWaitTimeoutMs,
                   options)

\* what the caller of a dispatch does when it has returned or thrown
dispatchReturns(w, s) ==
  IF w.disp[s].pc \notin {"done", "failed"} THEN w
  ELSE IF s = SendSlot
  THEN IF w.disp[s].pc = "done"
       THEN [w EXCEPT !.bcast.pc = "returned", !.bcast.ret = w.disp[s].ret]
       ELSE [w EXCEPT !.bcast.pc = "threw"]
  ELSE IF s \in TickSlots THEN tickReturns(w, s)
  ELSE executeChainSent(w, s)

(***************************************************************************)
(* The steps of the dispatcher.                                            *)
(***************************************************************************)
\* a call of Broadcaster.broadcast
Broadcast(terminalList, command, options, behavior) ==
  /\ bcast.pc = "idle"
  /\ Commit(dispatchReturns(broadcast(World, terminalList, command, options, behavior),
                            SendSlot),
            "broadcast")

\* the operator answers the busy prompt of filterBusyTerminals
AnswerBusyPrompt(picked) ==
  /\ bcast.pc = "busyPrompt"
  /\ Commit(dispatchReturns(filterBusyTerminalsPicked(World, picked), SendSlot),
            "busyPrompt")

\* the operator answers the keyword-guard prompt of confirmBroadcast
AnswerGuardPrompt(guarded) ==
  /\ bcast.pc = "guardPrompt"
  /\ Commit(IF guarded = "Send Anyway"
            THEN dispatchReturns(confirmSend([World EXCEPT !.bcast.guarded = guarded]),
                                 SendSlot)
            ELSE [World EXCEPT !.bcast.guarded = guarded, !.bcast.pc = "returned",
                               !.bcast.ret = 0],
            "guardPrompt")

\* the operator answers the confirmation prompt of confirmBroadcast
AnswerConfirmPrompt(confirmed) ==
  /\ bcast.pc = "confirmPrompt"
  /\ Commit(IF confirmed = "Send"
            THEN dispatchReturns(afterConfirm([World EXCEPT !.bcast.confirmed = confirmed]),
                                 SendSlot)
            ELSE [World EXCEPT !.bcast.confirmed = confirmed, !.bcast.pc = "returned",
                               !.bcast.ret = 0],
            "confirmPrompt")

\* waitForReadyCandidates resumes from delay(120)
ReadyWaitPoll ==
  /\ bcast.pc = "readyWait"
  /\ Commit(dispatchReturns(
              waitForReadyCandidates(
                [World EXCEPT !.bcast.elapsed = @ + READY_WAIT_POLL_MS]),
              SendSlot),
            "readyWaitPoll")

\* sendResolvedCommand resumes from delay(10) after the queuing keystroke
ResumeAfterTab(s) ==
  /\ disp[s].pc = "afterTab"
  /\ Commit(sendEnterKeyShow(World, s), "afterTab")

\* sendEnterKey resumes from delay(10): the sendSequence command
SendEnterSequence(s, commandFails) ==
  /\ disp[s].pc = "enterWait"
  /\ Commit(sendEnterKeySequence(World, s, commandFails), "sendSequence")

\* sendEnterKey resumes from the command
RestoreForeground(s) ==
  /\ disp[s].pc \in {"commandWait", "commandFailed"}
  /\ Commit(dispatchReturns(sendEnterKeyRestore(World, s), s), "restore")

\* sendResolvedCommand resumes from delay(16)
ResumeLineDelay(s) ==
  /\ disp[s].pc = "lineDelay"
  /\ Commit(dispatchReturns(afterLineDelay(World, s), s), "afterLineDelay")

\* dispatchResolvedCommands resumes from delay(waveDelayMs)
ResumeWaveDelay(s) ==
  /\ disp[s].pc = "waveDelay"
  /\ Commit(dispatchReturns(nextTarget(World, s), s), "afterWaveDelay")

\* the tick slots, and the executeChain slots, that are free
FreeTickSlots == {s \in TickSlots : disp[s].pc = "idle"}

FreeChainSlots == {c \in ChainSlots : chains[c].pc = "idle" /\ disp[c].pc = "idle"}

\* the free slot of the lowest number
LeastSlot(free) == CHOOSE s \in free : \A o \in free : s[2] <= o[2]

\* the operator starts polling
StartPolling(terminalList, command, intervalMs, options) ==
  /\ pollingRunId + chainRunId + 2 <= MaxRunId
  /\ FreeTickSlots # {}
  /\ Commit(startPolling([World EXCEPT !.args = <<terminalList, command>>],
                         LeastSlot(FreeTickSlots), terminalList, command,
                         intervalMs, options),
            "startPolling")

\* the operator stops polling that is active
StopPolling ==
  /\ status.polling.active
  /\ pollingRunId + chainRunId + 1 <= MaxRunId
  /\ Commit(stopPolling(World), "stopPolling")

\* the interval timer of startPolling fires and calls the tick of its run
PollingTimerFires ==
  /\ pollingTimer.armed
  /\ FreeTickSlots # {}
  /\ Commit(tick([World EXCEPT !.resumed = PollingRun(pollingTimer.runId,
                                                       pollingTimer.targets)],
                 LeastSlot(FreeTickSlots), pollingTimer.runId,
                 pollingTimer.targets, pollingTimer.text, pollingTimer.options),
            "tick")

\* the operator starts a task chain
StartChain(terminalList, script, defaultWaitTimeoutMs, options) ==
  /\ pollingRunId + chainRunId + 2 <= MaxRunId
  /\ FreeChainSlots # {}
  /\ Commit(startChain([World EXCEPT !.args = <<terminalList, script>>],
                       LeastSlot(FreeChainSlots), terminalList, script,
                       defaultWaitTimeoutMs, options),
            "startChain")

\* the operator stops the task chain that is active
StopChain ==
  /\ status.chain.active
  /\ pollingRunId + chainRunId + 1 <= MaxRunId
  /\ Commit(stopChain(World), "stopChain")

\* waitWithCancel resumes from a delay slice
DelaySliceElapses(c) ==
  /\ chains[c].pc = "delay"
  /\ LET chunk == IF chains[c].remaining < READY_PROBE_INTERVAL_MS
                  THEN chains[c].remaining ELSE READY_PROBE_INTERVAL_MS
     IN Commit(waitWithCancel([World EXCEPT !.chains[c].remaining = @ - chunk,
                                            !.resumed = ChainRun(chains[c])], c),
               "delaySlice")

\* waitForReadyState resumes from delay(READY_PROBE_INTERVAL_MS)
ReadyProbeElapses(c) ==
  /\ chains[c].pc = "waitReady"
  /\ Commit(waitForReadyState(
              [World EXCEPT !.chains[c].elapsed = @ + READY_PROBE_INTERVAL_MS,
                            !.resumed = ChainRun(chains[c])], c),
            "readyProbe")

\* the operator brings a session to the foreground
FocusTerminal(t) ==
  /\ t \in terminals /\ activeTerminal # t
  /\ activeTerminal' = t
  /\ last' = Step("focus", t, <<>>)
  /\ UNCHANGED <<terminals, closedTerminals, engineVars, dispatchVars>>

\* the disposal of a session: what sendText does on a disposed session shows with the
\* first one
Disposed(event) ==
  /\ event
  /\ IF closedTerminals = {}
     THEN sendTextThrows' \in BOOLEAN
     ELSE UNCHANGED sendTextThrows

\* an event of the environment, counted
Counted(event) ==
  /\ envEvents < MaxEnvEvents
  /\ event
  /\ envEvents' = envEvents + 1
  /\ UNCHANGED restVars

\* no function applied, no wait for readiness begun
NoResult == [steps |-> <<>>, error |-> <<"", 0>>]

InitRest ==
  /\ argument = <<>>
  /\ result = NoResult
  /\ unready = [c \in ChainSlots |-> [t \in AllTerminals |-> NotReadySince]]
  /\ panel = NoPanel

\* TaskAutomationManager after its construction
InitAutomation ==
  /\ status = IdleStatus
  /\ pollingTimer = NoPollingTimer
  /\ pollingRunId = 0
  /\ pollingBusy = FALSE
  /\ chainRunId = 0
  /\ chains = [c \in ChainSlots |-> IdleChain]

(***************************************************************************)
(* SpecBroadcast: one call of Broadcaster.broadcast, with the sessions     *)
(* changing under it.                                                      *)
(***************************************************************************)
\* the keywords of cursorTerminalNexus.sensitiveKeywords: one blank, one " RM "
SensitiveKeywords == << <<" ">>, <<" ", "R", "M", " ">> >>

\* threshold 2 and delay 50 ms: three targets go in waves, two do not
WaveThreshold == 2

WaveDelayMs == 50

BroadcastOptionSets ==
  {Options(confirm, guard, SensitiveKeywords, WaveThreshold, WaveDelayMs) :
     confirm \in BOOLEAN, guard \in BOOLEAN}

\* the commands of the operator: blank, harmless, and of two lines with the keyword
BroadcastCommands ==
  { <<" ">>, <<"l", "s", " ">>, <<"R", "m", "\r", "\n", "x">> }

\* the target lists of the operator: none, all sessions, one named twice
BroadcastTargetLists ==
  { <<>>, [i \in 1 .. NumTerminals |-> i], <<2, 1, 2>> }

\* the behaviours the callers pass: the command palette's, the control panel's, and
\* the panel's without the forced fallback
BroadcastBehaviors ==
  { InteractiveBroadcastBehavior(FALSE, 0, FALSE),
    InteractiveBroadcastBehavior(TRUE, 2 * READY_WAIT_POLL_MS, TRUE),
    InteractiveBroadcastBehavior(TRUE, 2 * READY_WAIT_POLL_MS, FALSE) }

\* the sessions are open; those above some k run the interactive CLI codex
InitBroadcast ==
  /\ terminals = AllTerminals
  /\ closedTerminals = {}
  /\ activeTerminal = 1
  /\ \E k \in 0 .. NumTerminals :
       /\ tracked = {t \in AllTerminals : t > k}
       /\ trackers = [t \in AllTerminals |->
                        IF t > k
                        THEN executionStarted(NewTracker, <<"c", "o", "d", "e", "x">>,
                                              TerminalName(t)).tracker
                        ELSE NewTracker]
       /\ streams = [t \in AllTerminals |-> IF t > k THEN {1} ELSE {}]
  /\ matched = [t \in AllTerminals |-> FALSE]
  /\ disp = [s \in Slots |-> IdleDispatch]
  /\ bcast = IdleBroadcast
  /\ InitAutomation
  /\ sendTextThrows = FALSE
  /\ envEvents = 0
  /\ last = Step("init", NoTerminal, <<>>)
  /\ InitRest

NextBroadcast ==
  \/ \E terminalList \in BroadcastTargetLists, command \in BroadcastCommands,
        options \in BroadcastOptionSets, behavior \in BroadcastBehaviors :
       Broadcast(terminalList, command, options, behavior) /\ UNCHANGED <<envEvents, restVars>>
  \/ \E picked \in {"Force Send", "Send Ready", "dismissed"} :
       AnswerBusyPrompt(picked) /\ UNCHANGED <<envEvents, restVars>>
  \/ \E guarded \in {"Send Anyway", "dismissed"} :
       AnswerGuardPrompt(guarded) /\ UNCHANGED <<envEvents, restVars>>
  \/ \E confirmed \in {"Send", "dismissed"} :
       AnswerConfirmPrompt(confirmed) /\ UNCHANGED <<envEvents, restVars>>
  \/ ReadyWaitPoll /\ UNCHANGED <<envEvents, restVars>>
  \/ ResumeAfterTab(SendSlot) /\ UNCHANGED <<envEvents, restVars>>
  \/ \E commandFails \in BOOLEAN :
       SendEnterSequence(SendSlot, commandFails) /\ UNCHANGED <<envEvents, restVars>>
  \/ RestoreForeground(SendSlot) /\ UNCHANGED <<envEvents, restVars>>
  \/ ResumeLineDelay(SendSlot) /\ UNCHANGED <<envEvents, restVars>>
  \/ ResumeWaveDelay(SendSlot) /\ UNCHANGED <<envEvents, restVars>>
  \/ \E t \in AllTerminals :
       \/ Counted(FocusTerminal(t))
       \/ Counted(QuietTimerFires(t))
       \/ Counted(Disposed(CloseTerminal(t)))
       \/ \E c \in CommandLines : Counted(handleExecutionStart(t, c))
       \/ Counted(handleExecutionEnd(t))

SpecBroadcast == InitBroadcast /\ [][NextBroadcast]_vars

\* C4: in Broadcaster.broadcast, when the keyword guard is enabled and the trimmed
\* command contains, whatever the case, a keyword that is not blank, nothing is
\* dispatched (no write, no input-sent notification) unless the operator answered
\* "Send Anyway"; when confirm-before-send is enabled nothing is dispatched unless the
\* confirmation, which names the number of candidates, was answered "Send"; the guard
\* is answered before the confirmation is asked, and a decline of either returns 0.
C4_GuardAndConfirmGate ==
  LET o == bcast.options
      sensitive ==
        /\ o.enableSensitiveCommandGuard
        /\ \E k \in 1 .. Len(o.sensitiveKeywords) :
             /\ StripWhitespace(o.sensitiveKeywords[k]) # <<>>
             /\ includes(toLowerCase(bcast.text), toLowerCase(trim(o.sensitiveKeywords[k])))
      dispatched ==
        \/ disp[SendSlot].pc # "idle"
        \/ disp[SendSlot].written # {}
        \/ last.wrote # <<>>
        \/ last.op \in {"broadcast", "busyPrompt", "guardPrompt", "confirmPrompt"}
             /\ last.events # <<>>
  IN bcast.pc # "idle" =>
       /\ (sensitive /\ bcast.guarded # "Send Anyway") => ~dispatched
       /\ (o.requireConfirmBeforeBroadcast /\ bcast.confirmed # "Send") => ~dispatched
       /\ (bcast.pc = "confirmPrompt" \/ bcast.confirmed # "none") =>
            /\ sensitive => bcast.guarded = "Send Anyway"
            /\ bcast.count = Len(bcast.candidates)
       /\ bcast.pc = "guardPrompt" => bcast.confirmed = "none"
       /\ (bcast.guarded = "dismissed" \/ bcast.confirmed = "dismissed") =>
            bcast.pc = "returned" /\ bcast.ret = 0

\* C4 witness: a command with the keyword was written to a session after the guard and
\* the confirmation were both accepted
C4_Witness ==
  /\ bcast.options.enableSensitiveCommandGuard
  /\ bcast.options.requireConfirmBeforeBroadcast
  /\ bcast.text = <<"R", "m", "\r", "\n", "x">>
  /\ bcast.guarded = "Send Anyway"
  /\ bcast.confirmed = "Send"
  /\ bcast.count = NumTerminals
  /\ last.wrote # <<>>

\* C8: with the busy filter active and a busy target among the n distinct targets, r of
\* them ready, "Send Ready" makes the r ready targets the candidates, "Force Send" all
\* n, and dismissing the prompt none; a call that is not declined at the keyword guard
\* or the confirmation dispatches to these candidates and returns r, n and 0; with no
\* busy target no prompt is shown and all n are the candidates.
C8_BusyFilterChoice ==
  LET n == Len(bcast.deduped)
      r == Len(bcast.ready)
      filtered == bcast.pc # "idle" /\ ~bcast.behavior.skipBusyFilter
                  /\ bcast.text # <<>> /\ n > 0
      declined == bcast.guarded = "dismissed" \/ bcast.confirmed = "dismissed"
      chosen == CASE bcast.picked = "Send Ready" -> bcast.ready
                  [] bcast.picked = "Force Send" -> bcast.deduped
                  [] bcast.picked = "dismissed" -> <<>>
                  [] OTHER -> bcast.deduped
  IN filtered =>
       /\ n = Cardinality(Range(bcast.deduped))
       /\ (bcast.pc = "busyPrompt" \/ bcast.picked # "none") <=> r < n
       /\ bcast.pc # "busyPrompt" =>
            /\ bcast.candidates = chosen
            /\ disp[SendSlot].pc # "idle" => disp[SendSlot].targets = chosen
            /\ (bcast.pc = "returned" /\ ~declined) =>
                 /\ bcast.ret = Len(chosen)
                 /\ chosen # <<>> => disp[SendSlot].pc = "done"
            /\ chosen = <<>> => disp[SendSlot].pc = "idle" /\ bcast.pc = "returned"

\* C8 witness: of three targets two were busy, the operator chose "Send Ready", and the
\* call returned 1 after writing to the one ready target
C8_Witness ==
  /\ bcast.pc = "returned"
  /\ bcast.picked = "Send Ready"
  /\ Len(bcast.deduped) = NumTerminals
  /\ Len(bcast.ready) = 1
  /\ bcast.ret = 1
  /\ disp[SendSlot].written = {bcast.ready[1]}

\* C5: every write to a session (line text, queuing keystroke, submit keystroke) is
\* made only if the session is open at the moment of the write.
C5_WritesOnlyToOpenSessions ==
  \A i \in 1 .. Len(last.wrote) : last.wrote[i].open

(***************************************************************************)
(* SpecAutomation: polling runs and chain runs, started, stopped and       *)
(* restarted by the operator, with the sessions changing under them.       *)
(***************************************************************************)
\* the options of the runs: no prompt, no wave delay
AutomationOptions == Options(FALSE, FALSE, <<>>, WaveThreshold, 0)

\* the target list of the runs: the last two sessions, one named twice
AutomationTargetLists == { <<NumTerminals - 1, NumTerminals, NumTerminals - 1>> }

\* the scripts of the chains: a command and a delay of two slices; a wait for readiness
\* stable for one probe interval, and a command
AutomationScripts ==
  { <<"l", "s", "\n", "d", "e", "l", "a", "y", ":", "4", "0", "0">>,
    <<"w", "a", "i", "t", "_", "r", "e", "a", "d", "y", ":", "2", "0", "0", "\n",
      "l", "s">> }

\* the sessions are open; the last one runs the interactive CLI codex
InitAutomationSpec ==
  /\ terminals = AllTerminals
  /\ closedTerminals = {}
  /\ activeTerminal = 1
  /\ tracked = {NumTerminals}
  /\ trackers = [t \in AllTerminals |->
                   IF t = NumTerminals
                   THEN executionStarted(NewTracker, <<"c", "o", "d", "e", "x">>,
                                         TerminalName(t)).tracker
                   ELSE NewTracker]
  /\ streams = [t \in AllTerminals |-> IF t = NumTerminals THEN {1} ELSE {}]
  /\ matched = [t \in AllTerminals |-> FALSE]
  /\ disp = [s \in Slots |-> IdleDispatch]
  /\ bcast = IdleBroadcast
  /\ InitAutomation
  /\ sendTextThrows = FALSE
  /\ envEvents = 0
  /\ last = Step("init", NoTerminal, <<>>)
  /\ InitRest

NextAutomation ==
  \/ \E terminalList \in AutomationTargetLists :
       StartPolling(terminalList, <<"l", "s", " ">>, 100, AutomationOptions)
         /\ UNCHANGED <<envEvents, restVars>>
  \/ StopPolling /\ UNCHANGED <<envEvents, restVars>>
  \/ PollingTimerFires /\ UNCHANGED <<envEvents, restVars>>
  \/ \E terminalList \in AutomationTargetLists, chainScript \in AutomationScripts :
       StartChain(terminalList, chainScript, 0, AutomationOptions) /\ UNCHANGED <<envEvents, restVars>>
  \/ StopChain /\ UNCHANGED <<envEvents, restVars>>
  \/ \E c \in ChainSlots :
       \/ DelaySliceElapses(c) /\ UNCHANGED <<envEvents, restVars>>
       \/ ReadyProbeElapses(c) /\ UNCHANGED <<envEvents, restVars>>
  \/ \E s \in TickSlots \cup ChainSlots :
       \/ ResumeAfterTab(s) /\ UNCHANGED <<envEvents, restVars>>
       \/ SendEnterSequence(s, FALSE) /\ UNCHANGED <<envEvents, restVars>>
       \/ RestoreForeground(s) /\ UNCHANGED <<envEvents, restVars>>
       \/ ResumeLineDelay(s) /\ UNCHANGED <<envEvents, restVars>>
  \/ \E t \in AllTerminals :
       \/ Counted(FocusTerminal(t))
       \/ Counted(QuietTimerFires(t))
       \/ Counted(Disposed(CloseTerminal(t)))

SpecAutomation == InitAutomationSpec /\ [][NextAutomation]_vars

\* C1: no continuation of a stopped run (one whose run id is no longer the current id
\* of its kind) changes the automation status record or emits a status event, whether
\* it was suspended in a dispatch, a delay slice or a ready-wait poll, and also when a
\* new run of the kind was started in between: the status changes and status events
\* fire only in the operator's calls and in continuations of the current run.
C1_StoppedRunChangesNoStatus ==
  [][LET r == last'.resumed
     IN /\ (status' # status \/ last'.effects # <<>>) =>
             \/ last'.op \in {"startPolling", "stopPolling", "startChain", "stopChain"}
             \/ r.kind = "polling" /\ r.run = pollingRunId'
             \/ r.kind = "chain" /\ r.run = chainRunId'
        /\ \A i \in 1 .. Len(last'.effects) :
             LET by == last'.effects[i].by
             IN /\ by.kind = "polling" => by.run = pollingRunId'
                /\ by.kind = "chain" => by.run = chainRunId']_vars

\* C1 witness: the tick of a stopped polling run came back from its dispatch while a
\* new polling run was active, and changed nothing in the status
C1_Witness ==
  /\ last.resumed.kind = "polling"
  /\ last.resumed.run < pollingRunId
  /\ status.polling.active
  /\ last.effects = <<>>
  /\ last.op \in {"afterLineDelay", "restore"}

\* C2: at most one polling tick is in flight at any time.
C2_AtMostOneTickInFlight ==
  Cardinality({s \in TickSlots : disp[s].pc # "idle"}) <= 1

\* C3: a stopped polling tick or chain command step writes no text and no keystroke to
\* any session once its run is stopped: every write of a run is made while the run's
\* id is the current id of its kind.
C3_StoppedRunWritesNothing ==
  \A i \in 1 .. Len(last.wrote) :
    LET by == last.wrote[i].by
    IN /\ by.kind = "polling" => by.run = pollingRunId
       /\ by.kind = "chain" => by.run = chainRunId

\* C6: the carriage return that submits a line dispatched to target T is delivered to T.
C6_EnterReachesTarget ==
  \A i \in 1 .. Len(last.wrote) :
    last.wrote[i].kind = "enter" => last.wrote[i].term = last.wrote[i].target

\* C7: a polling run or chain run writes only to sessions of the target list it was
\* started with.
C7_RunWritesOnlyToItsTargets ==
  \A i \in 1 .. Len(last.wrote) :
    LET x == last.wrote[i]
    IN x.by.kind \in {"polling", "chain"} => x.term \in x.by.scope

(***************************************************************************)
(* SpecEngine: the state engine of the sessions of EngineTerminals.        *)
(***************************************************************************)
EngineTerminals == {1}

InitEngine ==
  /\ terminals = EngineTerminals
  /\ closedTerminals = {}
  /\ activeTerminal = NoTerminal
  /\ tracked = {}
  /\ trackers = [t \in AllTerminals |-> NewTracker]
  /\ streams = [t \in AllTerminals |-> {}]
  /\ matched = [t \in AllTerminals |-> FALSE]
  /\ disp = [s \in Slots |-> IdleDispatch]
  /\ bcast = IdleBroadcast
  /\ InitAutomation
  /\ sendTextThrows = FALSE
  /\ envEvents = 0
  /\ last = Step("init", NoTerminal, <<>>)
  /\ InitRest

NextEngine ==
  \E t \in EngineTerminals :
    \/ CloseTerminal(t) /\ UNCHANGED <<envEvents, sendTextThrows, restVars>>
    \/ \E c \in CommandLines : handleExecutionStart(t, c) /\ UNCHANGED <<envEvents, restVars>>
    \/ handleExecutionEnd(t) /\ UNCHANGED <<envEvents, restVars>>
    \/ \E v \in 1 .. MaxVersion, chunk \in Chunks : StreamChunk(t, v, chunk) /\ UNCHANGED <<envEvents, restVars>>
    \/ EvaluateTimerFires(t) /\ UNCHANGED <<envEvents, restVars>>
    \/ QuietTimerFires(t) /\ UNCHANGED <<envEvents, restVars>>
    \/ InputSent(t) /\ UNCHANGED <<envEvents, restVars>>

SpecEngine == InitEngine /\ [][NextEngine]_vars

(***************************************************************************)
(* Claims about the state engine, checked under SpecEngine.                *)
(***************************************************************************)

\* C9 as stated: a session is CLI_WAITING only if its buffer has matched a ready-prompt
\* pattern since its last reset, i.e. without a match the state never becomes
\* CLI_WAITING.
C9_WaitingOnlyAfterMatch ==
  \A t \in EngineTerminals :
    (t \in tracked /\ trackers[t].state = CLI_WAITING) => matched[t]

\* C9 amended: a session whose buffer never matched a ready-prompt pattern is
\* CLI_WAITING only if it is a recognised interactive CLI (which the quiet probe moves
\* there); a session that is not one never becomes CLI_WAITING without a match.
C9_WaitingWithoutMatchOnlyInteractive ==
  \A t \in EngineTerminals :
    (t \in tracked /\ trackers[t].state = CLI_WAITING /\ ~matched[t])
      => trackers[t].isInteractiveCli

\* C9 witness: a session that is no interactive CLI got output that matches no prompt,
\* was notified of input, its quiet probe fired, and it is still busy.
C9_Witness ==
  /\ last.op = "quietProbe" /\ last.term = 1
  /\ 1 \in tracked
  /\ ~trackers[1].isInteractiveCli
  /\ trackers[1].buffer # <<>> /\ ~matched[1]
  /\ trackers[1].state = CLI_THINKING

\* C10: an evaluation of a buffer that matches a prompt moves a RUNNING_PROGRAM or
\* CLI_THINKING session to CLI_WAITING and fires exactly one state-change event; an
\* evaluation of a matching buffer in any other state (the session is CLI_WAITING
\* already) changes no state and fires no event.
C10_PromptEvaluationFiresOnce ==
  [][\A t \in EngineTerminals :
       (last'.op = "evaluate" /\ last'.term = t /\ IsPrompt(trackers[t].buffer))
         => IF trackers[t].state \in {RUNNING_PROGRAM, CLI_THINKING}
            THEN trackers'[t].state = CLI_WAITING /\ last'.events = <<CLI_WAITING>>
            ELSE trackers'[t].state = trackers[t].state /\ last'.events = <<>>]_vars

\* C10 witness: a matching buffer was evaluated a second time, in CLI_WAITING with a
\* pending signal, and nothing fired.
C10_Witness ==
  /\ last.op = "evaluate" /\ last.term = 1 /\ last.events = <<>>
  /\ 1 \in tracked
  /\ IsPrompt(trackers[1].buffer)
  /\ trackers[1].state = CLI_WAITING
  /\ trackers[1].buffer = <<"x", "\n", ">">>

\* C11: an execution-end event empties the buffer, bumps the generation, cancels both
\* timers and sets the state to IDLE, whatever the state before; and a session that is
\* IDLE leaves IDLE only by an execution-start event, whatever chunks of an ended
\* stream, timers or input-sent notifications arrive.
C11_ExecutionEndResets ==
  [][\A t \in EngineTerminals :
       /\ (last'.op = "executionEnd" /\ last'.term = t)
            => /\ trackers'[t].state = IDLE
               /\ trackers'[t].buffer = <<>>
               /\ trackers'[t].executionVersion = getOrCreateTracker(t).executionVersion + 1
               /\ ~trackers'[t].evaluateTimer
               /\ ~trackers'[t].quietTimer.armed
               /\ last'.events = IF getState(t) = IDLE THEN <<>> ELSE <<IDLE>>
       /\ (getState(t) = IDLE /\ trackers'[t].state # IDLE)
            => last'.op = "executionStart" /\ last'.term = t]_vars

\* C11 witness: the execution of an interactive CLI ended while its stream consumer was
\* still reading, and an input-sent notification arrived afterwards: the session is IDLE.
C11_Witness ==
  /\ last.op = "inputSent" /\ last.term = 1
  /\ 1 \in tracked
  /\ trackers[1].executionVersion = 2
  /\ streams[1] = {1}
  /\ trackers[1].state = IDLE

(***************************************************************************)
(* SpecParse: parseChainScript applied to a script of one or two lines.    *)
(***************************************************************************)
\* the keys of the single-field directives
DirectiveKeys == {DELAY, WAIT_READY, WAIT_IDLE}

\* the values of the directives, with the numbers they spell
DirectiveValues ==
  { [text |-> <<"0">>, number |-> 0], [text |-> <<"5">>, number |-> 5],
    [text |-> <<"0", "7">>, number |-> 7], [text |-> <<"5", "0", "0">>, number |-> 500] }

\* key:N
BareDirective(key, text) == key \o <<":">> \o text

\* {key: N}
BracedDirective(key, text) == <<"{">> \o key \o <<":", " ">> \o text \o <<"}">>

\* the other lines: blank, comment, commands, directives of two fields, malformed ones
OtherLines ==
  { <<>>, <<" ", " ">>, <<"#", " ", "c">>, <<"l", "s">>, <<" ", "l", "s", " ">>,
    <<"D", "E", "L", "A", "Y", " ", ":", " ", "5">>,
    <<"{">> \o WAIT_READY \o <<":", "5", ",">> \o TIMEOUT \o <<":", "1", "0", "0", "0", "}">>,
    <<"{">> \o WAIT_IDLE \o <<":", "5", ",">> \o TIMEOUT \o <<":", "9", "9", "9", "}">>,
    WAIT_READY \o <<":", "5", "0", "0", "0", ",">> \o TIMEOUT \o <<":", "1", "0", "0", "0">>,
    <<"{">> \o DELAY \o <<":", "5", ",">> \o TIMEOUT \o <<":", "1", "0", "0", "0", "}">>,
    <<"{">> \o WAIT_READY \o <<":", "1", ",">> \o WAIT_IDLE \o <<":", "2", "}">>,
    <<"{">> \o TIMEOUT \o <<":", "1", "0", "0", "0", "}">>,
    <<"{", "f", "o", "o", ":", "1", "}">>,
    <<"{">> \o DELAY \o <<":", "x", "}">>,
    DELAY \o <<":", "x">>,
    DELAY \o <<":">>,
    <<"{", "}">>,
    TIMEOUT \o <<":", "1", "0", "0", "0">>,
    <<"{">> \o DELAY \o <<":", "5", "}", " ", "x">> }

ScriptLines ==
  {BareDirective(key, v.text) : key \in DirectiveKeys, v \in DirectiveValues}
    \cup {BracedDirective(key, v.text) : key \in DirectiveKeys, v \in DirectiveValues}
    \cup OtherLines

\* what stands before the last line: nothing, a blank line, a comment, a command with a
\* Windows line break
ScriptHeads ==
  { <<>>, <<"\n">>, <<"#", "\n">>, <<"l", "s", "\r", "\n">> }

ParseScripts == {head \o line : head \in ScriptHeads, line \in ScriptLines}

InitParse ==
  /\ terminals = AllTerminals
  /\ closedTerminals = {}
  /\ activeTerminal = NoTerminal
  /\ tracked = {}
  /\ trackers = [t \in AllTerminals |-> NewTracker]
  /\ streams = [t \in AllTerminals |-> {}]
  /\ matched = [t \in AllTerminals |-> FALSE]
  /\ disp = [s \in Slots |-> IdleDispatch]
  /\ bcast = IdleBroadcast
  /\ InitAutomation
  /\ sendTextThrows = FALSE
  /\ envEvents = 0
  /\ last = Step("init", NoTerminal, <<>>)
  /\ argument \in ParseScripts
  /\ result = NoResult
  /\ unready = [c \in ChainSlots |-> [t \in AllTerminals |-> NotReadySince]]
  /\ panel = NoPanel

\* a call of parseChainScript
ParseChainScript ==
  /\ last.op = "init"
  /\ result' = parseChainScript(argument)
  /\ last' = Step("parseChainScript", NoTerminal, <<>>)
  /\ UNCHANGED <<envVars, engineVars, dispatchVars, envEvents, argument, unready, panel>>

NextParse == ParseChainScript

SpecParse == InitParse /\ [][NextParse]_vars

\* C19: the bare form key:N and the braced form {key: N} of a directive of one field
\* parse to the same step, for the keys delay, wait_ready and wait_idle and every
\* non-negative integer N: a delay step of N ms, or a wait-ready step of N ms without a
\* timeout of its own; wait_idle yields the step wait_ready yields.
C19_BareAndBracedAgree ==
  \A head \in ScriptHeads, key \in DirectiveKeys, v \in DirectiveValues :
    (last.op = "parseChainScript"
       /\ argument \in {head \o BareDirective(key, v.text),
                        head \o BracedDirective(key, v.text)})
      => LET sourceLine == Len(splitScript(argument))
             step == IF key = DELAY THEN DelayStep(v.number, sourceLine)
                     ELSE WaitReadyStep(v.number, NoTimeout, sourceLine)
         IN /\ result.error = NoError
            /\ result.steps # <<>>
            /\ result.steps[Len(result.steps)] = step
            /\ result = parseChainScript(head \o BareDirective(key, v.text))
            /\ result = parseChainScript(head \o BracedDirective(key, v.text))
            /\ key = WAIT_IDLE
                 => result = parseChainScript(head \o BareDirective(WAIT_READY, v.text))

\* C19 witness: {wait_idle: 500} on the second line of a script was parsed to a
\* wait-ready step of 500 ms
C19_Witness ==
  /\ last.op = "parseChainScript"
  /\ argument = <<"l", "s", "\r", "\n">> \o BracedDirective(WAIT_IDLE, <<"5", "0", "0">>)
  /\ result.steps = <<CommandStep(<<"l", "s">>, 1), WaitReadyStep(500, NoTimeout, 2)>>

\* the grammar of the script: Key := delay | wait_ready | wait_idle | timeout
GrammarKeys == {DELAY, WAIT_READY, WAIT_IDLE, TIMEOUT}

\* Field := Key ":" Integer, with blanks allowed around the colon and the key in any
\* case: the key of the text (none if it does not begin with a key and a colon),
\* whether an integer follows, and the integer
GrammarField(text) ==
  LET t == trim(text)
      colonAfter(k) == SkipWhile(t, Len(k) + 1, Whitespace)
      keys == {k \in GrammarKeys :
                 /\ StartsAt(toLowerCase(t), 1, k)
                 /\ colonAfter(k) <= Len(t)
                 /\ t[colonAfter(k)] = ":"}
      key == CHOOSE k \in keys : TRUE
      digits == trim(SubSeq(t, colonAfter(key) + 1, Len(t)))
  IN IF keys = {} THEN [key |-> <<>>, integer |-> FALSE, number |-> 0]
     ELSE [key |-> key, integer |-> IsDigits(digits),
           number |-> IF IsDigits(digits) THEN Number(digits) ELSE 0]

\* the class of a line by the grammar: "none" for a blank line or a comment, "delay" or
\* "waitReady" for an accepted directive, "error" for a directive that is not
\* accepted, "command" for any other line
GrammarClass(rawLine) ==
  LET line == trim(rawLine)
      braced == line[1] = "{" /\ line[Len(line)] = "}"
      parts == IF braced
               THEN SelectSeq(split(SubSeq(line, 2, Len(line) - 1), ","),
                              LAMBDA part : trim(part) # <<>>)
               ELSE <<line>>
      fields == [i \in 1 .. Len(parts) |-> GrammarField(parts[i])]
      keys == {fields[i].key : i \in 1 .. Len(fields)}
      wellFormed == /\ parts # <<>>
                    /\ \A i \in 1 .. Len(fields) : fields[i].key # <<>> /\ fields[i].integer
      timeoutOk == \A i \in 1 .. Len(fields) :
                     fields[i].key = TIMEOUT => fields[i].number >= 1000
      accepted ==
        \/ keys = {DELAY}
        \/ /\ keys \in {{WAIT_READY}, {WAIT_IDLE}, {WAIT_READY, TIMEOUT},
                        {WAIT_IDLE, TIMEOUT}}
           /\ timeoutOk
  IN IF line = <<>> \/ line[1] = "#" THEN "none"
     ELSE IF ~braced /\ GrammarField(line).key = <<>> THEN "command"
     ELSE IF wellFormed /\ accepted
     THEN IF DELAY \in keys THEN "delay" ELSE "waitReady"
     ELSE "error"

\* C20: parseChainScript classifies every line by the grammar: blank lines and comments
\* give no step; a directive, braced or bare, with keys among delay, wait_ready,
\* wait_idle and timeout is accepted only if delay stands alone or one of wait_ready and
\* wait_idle stands alone or with a timeout of at least 1000; any other directive is a
\* parse error that names its line, the first such line of the script; any other line
\* becomes a command step with its text and its line number.
C20_LinesClassifiedByGrammar ==
  last.op = "parseChainScript" =>
    LET lines == splitScript(argument)
        classOf == [i \in 1 .. Len(lines) |-> GrammarClass(lines[i])]
        errors == {i \in 1 .. Len(lines) : classOf[i] = "error"}
        stepLines == SelectSeq([i \in 1 .. Len(lines) |-> i],
                               LAMBDA i : classOf[i] # "none")
    IN IF errors # {}
       THEN /\ result.error # NoError
            /\ result.error[2] = CHOOSE i \in errors : \A j \in errors : i <= j
       ELSE /\ result.error = NoError
            /\ Len(result.steps) = Len(stepLines)
            /\ \A k \in 1 .. Len(stepLines) :
                 /\ result.steps[k].sourceLine = stepLines[k]
                 /\ result.steps[k].kind = classOf[stepLines[k]]
                 /\ result.steps[k].kind = "command"
                      => result.steps[k].command = lines[stepLines[k]]

(***************************************************************************)
(* SpecRuns: a polling run and a chain run against one session, which      *)
(* executes the program ls and closes under them.                          *)
(***************************************************************************)
\* the events of the session under the runs
MaxRunEvents == 2

\* the target lists of the runs: none, and the last session
RunTargetLists == { <<>>, <<NumTerminals>> }

\* the polling commands: a blank, and ls
RunCommands == { <<" ">>, <<"l", "s">> }

\* a wait with its own timeout, in braces
BracedWaitScript ==
  <<"{", "w", "a", "i", "t", "_", "r", "e", "a", "d", "y", ":", "5", "0", "0", "0",
     ",", "t", "i", "m", "e", "o", "u", "t", ":", "1", "0", "0", "0", "}">>

\* the same two fields without the braces
BareWaitScript ==
  <<"w", "a", "i", "t", "_", "r", "e", "a", "d", "y", ":", "5", "0", "0", "0", ",",
     "t", "i", "m", "e", "o", "u", "t", ":", "1", "0", "0", "0">>

\* a wait that falls back to the default timeout
DefaultWaitScript == <<"w", "a", "i", "t", "_", "r", "e", "a", "d", "y", ":", "4", "0", "0">>

\* a command and a delay of two slices
CommandDelayScript == <<"l", "s", "\n", "d", "e", "l", "a", "y", ":", "4", "0", "0">>

\* a comment, which has no step
CommentScript == <<"#", " ", "c">>

RunScripts ==
  {BracedWaitScript, BareWaitScript, DefaultWaitScript, CommandDelayScript,
   CommentScript}

\* TerminalStateManager.getState after the step
getStateAfter(t) == IF t \in tracked' THEN trackers'[t].state ELSE IDLE

\* a step of the operator or of a run, with the history of the waits for readiness:
\* a session outside the ready states is outside them from the last probe's time on
Watched(step) ==
  /\ step
  /\ unready' =
       [c \in ChainSlots |-> [t \in AllTerminals |->
          IF chains'[c].pc # "waitReady" THEN NotReadySince
          ELSE IF ~isReadyState(getStateAfter(t)) THEN chains'[c].elapsed
          ELSE IF \/ chains[c].pc # "waitReady"
                  \/ chains[c].runId # chains'[c].runId
                  \/ chains[c].stepIndex # chains'[c].stepIndex
          THEN NotReadySince
          ELSE unready[c][t]]]
  /\ UNCHANGED <<argument, result, panel>>

\* an event of the session, counted
RunEvent(event) ==
  /\ envEvents < MaxRunEvents
  /\ Watched(event)
  /\ envEvents' = envEvents + 1

\* the sessions are open and idle, none is tracked
InitRuns ==
  /\ terminals = AllTerminals
  /\ closedTerminals = {}
  /\ activeTerminal = 1
  /\ tracked = {}
  /\ trackers = [t \in AllTerminals |-> NewTracker]
  /\ streams = [t \in AllTerminals |-> {}]
  /\ matched = [t \in AllTerminals |-> FALSE]
  /\ disp = [s \in Slots |-> IdleDispatch]
  /\ bcast = IdleBroadcast
  /\ InitAutomation
  /\ sendTextThrows = FALSE
  /\ envEvents = 0
  /\ last = Step("init", NoTerminal, <<>>)
  /\ InitRest

NextRuns ==
  \/ \E terminalList \in RunTargetLists, command \in RunCommands :
       Watched(StartPolling(terminalList, command, 100, AutomationOptions))
         /\ UNCHANGED envEvents
  \/ Watched(StopPolling) /\ UNCHANGED envEvents
  \/ Watched(PollingTimerFires) /\ UNCHANGED envEvents
  \/ \E terminalList \in RunTargetLists, chainScript \in RunScripts :
       Watched(StartChain(terminalList, chainScript, 1400, AutomationOptions))
         /\ UNCHANGED envEvents
  \/ Watched(StopChain) /\ UNCHANGED envEvents
  \/ \E c \in ChainSlots :
       \/ Watched(DelaySliceElapses(c)) /\ UNCHANGED envEvents
       \/ Watched(ReadyProbeElapses(c)) /\ UNCHANGED envEvents
  \/ \E s \in TickSlots \cup ChainSlots :
       \/ \E commandFails \in BOOLEAN :
            Watched(SendEnterSequence(s, commandFails)) /\ UNCHANGED envEvents
       \/ Watched(RestoreForeground(s)) /\ UNCHANGED envEvents
       \/ Watched(ResumeLineDelay(s)) /\ UNCHANGED envEvents
  \/ RunEvent(Disposed(CloseTerminal(NumTerminals)))
  \/ RunEvent(handleExecutionStart(NumTerminals, <<"l", "s">>))
  \/ RunEvent(handleExecutionEnd(NumTerminals))

SpecRuns == InitRuns /\ [][NextRuns]_vars

\* the timeout of the wait step a call of executeChain is at: the step's own, else the
\* default the call was given
WaitTimeoutOf(ch) ==
  LET step == ch.steps[ch.stepIndex + 1]
  IN IF step.timeoutMs # NoTimeout THEN step.timeoutMs ELSE ch.defaultWaitTimeoutMs

\* the open targets of the wait a call of executeChain is in
OpenWaitTargets(ch) == Range(ch.waitTargets) \cap terminals

\* C12 as stated: the script wait_ready:5000,timeout:1000, without braces, starts a chain
\* on an open session whose wait step is stable for 5000 ms and has the timeout 1000 ms.
C12_BareTwoFieldsStartAChain ==
  [][( /\ last'.op = "startChain"
       /\ last'.args = << <<NumTerminals>>, BareWaitScript >>
       /\ NumTerminals \in terminals )
       => /\ last'.thrown = NoError
          /\ status'.chain.active
          /\ \E c \in ChainSlots :
               /\ chains'[c].pc = "waitReady"
               /\ chains'[c].steps[1].stableMs = 5000
               /\ chains'[c].steps[1].timeoutMs = 1000]_vars

\* C12: the script {wait_ready:5000,timeout:1000} starts a chain on an open session
\* whose wait step has the
\* timeout 1000 ms; a wait for readiness goes on only while the time since its start is
\* within its effective timeout (the step's own, else the default of the call, which is
\* at least 1000 ms), and the probe of an active run that finds an open target outside
\* the ready states later than that fails the chain with an error that names the step
\* and the wait, while an earlier one sleeps one more interval; so a target that never
\* becomes ready fails the step at the first probe after the timeout: at 1200 ms for the
\* timeout 1000 ms with probes every 200 ms, not at 5000 ms and not at the default.
C12_WaitFailsAfterEffectiveTimeout ==
  [][/\ ( /\ last'.op = "startChain"
          /\ last'.args = << <<NumTerminals>>, BracedWaitScript >>
          /\ NumTerminals \in terminals )
          => /\ last'.thrown = NoError
             /\ \E c \in ChainSlots :
                  /\ chains[c].pc = "idle"
                  /\ chains'[c].runId = chainRunId'
                  /\ chains'[c].steps = << [kind |-> "waitReady", command |-> <<>>,
                                            delayMs |-> 0, stableMs |-> 5000,
                                            timeoutMs |-> 1000, sourceLine |-> 1] >>
                  /\ chains'[c].defaultWaitTimeoutMs = 1400
     /\ \A c \in ChainSlots :
          chains[c].pc = "waitReady" =>
            LET ch == chains[c]
                now == ch.elapsed + READY_PROBE_INTERVAL_MS
            IN /\ ch.elapsed <= WaitTimeoutOf(ch)
               /\ ( /\ last'.op = "readyProbe"
                    /\ last'.resumed = ChainRun(ch)
                    /\ status.chain.active /\ ch.runId = chainRunId
                    /\ \E t \in OpenWaitTargets(ch) : ~isReadyState(getState(t)) )
                    => IF now > WaitTimeoutOf(ch)
                       THEN /\ status'.chain =
                                 [status.chain EXCEPT
                                    !.active = FALSE, !.detail = "Failed",
                                    !.error = <<"wait_ready timed out", ch.stepIndex + 1>>]
                            /\ chains'[c].pc = "idle"
                            /\ ch.steps[ch.stepIndex + 1].timeoutMs = 1000 => now = 1200
                       ELSE /\ status' = status
                            /\ chains'[c].pc = "waitReady"
                            /\ chains'[c].elapsed = now
     /\ \A i \in 1 .. Len(last'.caught) :
          last'.caught[i].error[1] = "wait_ready timed out"
            => LET ch == last'.caught[i].frame
               IN /\ ch.elapsed > WaitTimeoutOf(ch)
                  /\ ch.elapsed <= WaitTimeoutOf(ch) + READY_PROBE_INTERVAL_MS
                  /\ last'.caught[i].error[2] = ch.stepIndex + 1
                  /\ ch.steps[ch.stepIndex + 1].kind = "waitReady"]_vars

\* the wait of {wait_ready:5000,timeout:1000} has failed at 1200 ms on a session that
\* ran a program all the time
C12_Witness ==
  /\ last.op = "readyProbe"
  /\ Len(last.caught) = 1
  /\ last.caught[1].error = <<"wait_ready timed out", 1>>
  /\ last.caught[1].active
  /\ last.caught[1].frame.elapsed = 1200
  /\ last.caught[1].frame.steps[1].stableMs = 5000
  /\ last.caught[1].frame.steps[1].timeoutMs = 1000
  /\ getState(NumTerminals) = RUNNING_PROGRAM
  /\ status.chain.error = <<"wait_ready timed out", 1>>
  /\ ~status.chain.active

\* the status values a step assigned in the code of the run by, in order
AssignedBy(step, by) ==
  SelectSeq(step.effects, LAMBDA e : e.what = "status" /\ e.by = by)

\* the wait step a call of executeChain is in has returned in the step: the loop of
\* executeChain went on to the next step or past the last one
WaitReturned(ch, step) ==
  \E i \in 1 .. Len(AssignedBy(step, ChainRun(ch))) :
    LET chain == AssignedBy(step, ChainRun(ch))[i].value.chain
    IN chain.detail = "Completed" \/ chain.currentStep = ch.stepIndex + 2

\* C13: a wait for readiness completes only when every open target has been in a ready
\* state without interruption for at least stableMs: a target that was outside the ready
\* states at some time of the wait, however briefly, is ready at the completing probe and
\* was last outside them more than stableMs before it.
C13_WaitCompletesAfterUnbrokenStreak ==
  [][\A c \in ChainSlots :
       LET ch == chains[c]
           now == ch.elapsed + READY_PROBE_INTERVAL_MS
       IN ( /\ ch.pc = "waitReady"
            /\ last'.op = "readyProbe"
            /\ last'.resumed = ChainRun(ch)
            /\ WaitReturned(ch, last') )
            => \A t \in OpenWaitTargets(ch) :
                 /\ isReadyState(getState(t))
                 /\ unready[c][t] # NotReadySince
                      => now - unready[c][t] > ch.steps[ch.stepIndex + 1].stableMs]_vars

\* C14: a failure or a cancellation of the active chain (its status turns inactive other
\* than by completion, in a step that starts no new chain) invalidates the run id and
\* records an error that names the step the chain was at.
C14_FailureOrCancellationRecorded ==
  [][( /\ status.chain.active
       /\ ~status'.chain.active
       /\ status'.chain.detail # "Completed"
       /\ last'.op # "startChain" )
       => /\ chainRunId' > chainRunId
          /\ status'.chain.error # NoError
          /\ status'.chain.error[2] = status.chain.currentStep]_vars

\* C15: the active chain run takes its steps in script order, one at a time: the status
\* counts currentStep up by one, within totalSteps, only in the code of the chain run
\* while the chain is active and without error (only startChain sets it back to 0);
\* Completed is assigned only by the chain run at its last step, active and without
\* error, and leaves active false and the error empty; and the call of the active run
\* that returns without having caught an error reports Completed at the last step.
C15_StepsInScriptOrder ==
  [][LET assigned == SelectSeq(last'.effects, LAMBDA e : e.what = "status")
         before(i) == IF i = 1 THEN status.chain ELSE assigned[i - 1].value.chain
     IN /\ \A i \in 1 .. Len(assigned) :
             LET was == before(i)
                 now == assigned[i].value.chain
                 by == assigned[i].by
             IN /\ now.currentStep # was.currentStep
                     => \/ /\ by.kind = "chain" /\ by.run = chainRunId'
                           /\ now.currentStep = was.currentStep + 1
                           /\ now.currentStep <= was.totalSteps
                           /\ was.active /\ was.error = NoError
                           /\ now = [was EXCEPT !.currentStep = @ + 1,
                                                !.detail = now.detail]
                           /\ now.detail \in {"Command", "Delay", "Wait ready"}
                        \/ /\ by = Operator /\ last'.op = "startChain"
                           /\ now.currentStep = 0 /\ now.detail = "Running"
                /\ (now.detail = "Completed" /\ was.detail # "Completed")
                     => /\ by.kind = "chain" /\ by.run = chainRunId'
                        /\ was.active /\ was.error = NoError
                        /\ was.currentStep = was.totalSteps
                        /\ now = [was EXCEPT !.active = FALSE, !.detail = "Completed"]
        /\ \A c \in ChainSlots :
             ( /\ chains[c].pc # "idle" /\ chains'[c].pc = "idle"
               /\ last'.resumed = ChainRun(chains[c])
               /\ status.chain.active /\ chains[c].runId = chainRunId
               /\ last'.caught = <<>> )
               => /\ chains[c].stepIndex = Len(chains[c].steps) - 1
                  /\ status'.chain = [status.chain EXCEPT !.active = FALSE,
                                                          !.detail = "Completed"]
                  /\ status'.chain.currentStep = status'.chain.totalSteps
                  /\ status'.chain.error = NoError]_vars

\* the chain of a command and a delay has completed at the end of the delay
C15_Witness ==
  /\ last.op = "delaySlice"
  /\ last.caught = <<>>
  /\ status.chain = [active |-> FALSE, currentStep |-> 2, totalSteps |-> 2,
                     targetCount |-> 1, detail |-> "Completed", error |-> NoError]
  /\ \A c \in ChainSlots : chains[c].pc = "idle"

\* C16: an error caught by an active polling run (no original target open any more, or a
\* dispatch that threw) stops polling: active false, the error recorded, the interval
\* timer cancelled; the tick of the timer that finds no original target open catches
\* that error and writes nothing; polling with a recorded error is inactive and has no
\* timer, so no later tick of the run is called; an error caught by the active chain
\* run fails the chain (active false, the error recorded, detail Failed), and the first
\* step of a chain and the probe of a wait that find no target open catch that error.
C16_ErrorsStopTheOwningRun ==
  [][/\ \A i \in 1 .. Len(last'.caught) :
          LET e == last'.caught[i]
          IN e.active
               => IF e.by.kind = "polling"
                  THEN /\ e.error # NoError
                       /\ ~status'.polling.active
                       /\ status'.polling.error = e.error
                       /\ pollingTimer' = NoPollingTimer
                       /\ e.error[1] = "All polling targets are closed."
                            => e.by.scope \cap terminals = {}
                  ELSE /\ e.error # NoError
                       /\ ~status'.chain.active
                       /\ status'.chain.error = e.error
                       /\ status'.chain.detail = "Failed"
                       /\ e.error[1] = "All chain targets are closed."
                            => e.by.scope \cap terminals = {}
     /\ ( /\ last'.op = "tick"
          /\ status.polling.active /\ pollingTimer.runId = pollingRunId
          /\ ~pollingBusy
          /\ Range(pollingTimer.targets) \cap terminals = {} )
          => /\ Len(last'.caught) = 1
             /\ last'.caught[1].active
             /\ last'.caught[1].error = <<"All polling targets are closed.", 0>>
             /\ last'.wrote = <<>>
             /\ disp' = disp
     /\ ( /\ last'.op = "startChain" /\ last'.thrown = NoError
          /\ Range(last'.args[1]) \cap terminals = {} )
          => /\ status'.chain.error = <<"All chain targets are closed.", 0>>
             /\ ~status'.chain.active
             /\ status'.chain.currentStep = 1
             /\ last'.wrote = <<>>
     /\ \A c \in ChainSlots :
          ( /\ last'.op = "readyProbe"
            /\ chains[c].pc = "waitReady"
            /\ last'.resumed = ChainRun(chains[c])
            /\ status.chain.active /\ chains[c].runId = chainRunId
            /\ Range(chains[c].terminals) \cap terminals = {} )
            => /\ chains'[c].pc = "idle"
               /\ status'.chain.error = <<"All chain targets are closed.", 0>>
               /\ ~status'.chain.active
     /\ status'.polling.error # NoError
          => /\ ~status'.polling.active
             /\ ~pollingTimer'.armed]_vars

\* the tick of the timer has found the only target closed and has stopped polling
C16_Witness ==
  /\ last.op = "tick"
  /\ Len(last.caught) = 1
  /\ last.caught[1].error = <<"All polling targets are closed.", 0>>
  /\ last.caught[1].active
  /\ NumTerminals \in closedTerminals
  /\ status.polling.error = <<"All polling targets are closed.", 0>>
  /\ ~status.polling.active
  /\ ~pollingTimer.armed

\* the steps of the polling run: its start, its stop, its ticks and their continuations
PollingStep(step) ==
  step.op \in {"startPolling", "stopPolling", "tick"} \/ step.resumed.kind = "polling"

\* the steps of the chain run: its start, its stop and the continuations of executeChain
ChainStep(step) ==
  \/ step.op \in {"startChain", "stopChain", "delaySlice", "readyProbe"}
  \/ step.resumed.kind = "chain"

\* C17: a step of the polling run (start, stop, tick, failure, end of a dispatch) leaves
\* the chain status, the chain run id, the calls of executeChain and their dispatches
\* unchanged, and a step of the chain run (start, stop, step, failure, completion)
\* leaves the polling status, the polling run id, the interval timer, the busy flag and
\* the dispatches of the ticks unchanged; each status and run id changes only in steps of
\* its own kind.
C17_RunKindsAreIsolated ==
  [][/\ PollingStep(last')
          => /\ status'.chain = status.chain
             /\ UNCHANGED <<chainRunId, chains>>
             /\ \A s \in ChainSlots : disp'[s] = disp[s]
     /\ ChainStep(last')
          => /\ status'.polling = status.polling
             /\ UNCHANGED <<pollingRunId, pollingTimer, pollingBusy>>
             /\ \A s \in TickSlots : disp'[s] = disp[s]
     /\ (status'.chain # status.chain \/ chainRunId' # chainRunId \/ chains' # chains)
          => ChainStep(last')
     /\ ( \/ status'.polling # status.polling \/ pollingRunId' # pollingRunId
          \/ pollingTimer' # pollingTimer \/ pollingBusy' # pollingBusy )
          => PollingStep(last')]_vars

\* polling has failed on the closed session while the chain on the same session is in
\* its delay and stays active
C17_Witness ==
  /\ last.op = "tick"
  /\ Len(last.caught) = 1 /\ last.caught[1].active
  /\ status.polling.error # NoError
  /\ ~status.polling.active
  /\ status.chain.active
  /\ status.chain.error = NoError
  /\ \E c \in ChainSlots : chains[c].pc = "delay" /\ chains[c].runId = chainRunId

\* C18: startPolling with a command of nothing but whitespace or with no target, and
\* startChain with a malformed script (error with its line), a script without steps or no
\* target, throw and change nothing: no run id, no status, no timer, no call of
\* executeChain, no dispatch, no write, no status event; every other start throws
\* nothing.
C18_InvalidStartsAreRejected ==
  [][LET blank == \A i \in 1 .. Len(last'.args[2]) : last'.args[2][i] \in Whitespace
         invalid ==
           \/ last'.args[1] = <<>>
           \/ last'.op = "startPolling" /\ blank
           \/ last'.op = "startChain" /\ last'.args[2] \in {BareWaitScript, CommentScript}
     IN /\ last'.op \in {"startPolling", "startChain"}
             => IF invalid
                THEN /\ last'.thrown # NoError
                     /\ UNCHANGED <<automationVars, disp, envVars, engineVars>>
                     /\ last'.effects = <<>>
                     /\ last'.wrote = <<>>
                     /\ last'.events = <<>>
                     /\ (last'.op = "startChain" /\ last'.args[2] = BareWaitScript)
                          => last'.thrown[2] = 1
                ELSE last'.thrown = NoError
        /\ last'.thrown # NoError => last'.op \in {"startPolling", "startChain"}]_vars

\* a blank polling command has been rejected while polling goes on
C18_Witness ==
  /\ last.op = "startPolling"
  /\ last.args = << <<NumTerminals>>, <<" ">> >>
  /\ last.thrown = <<"Polling command cannot be empty.", 0>>
  /\ status.polling.active
  /\ status.polling.command = <<"l", "s">>
  /\ pollingTimer.armed

(***************************************************************************)
(* SpecPlaceholders: the commands dispatchResolvedCommands resolves for    *)
(* its targets, in the order of its loop.                                  *)
(***************************************************************************)
\* the command of the example, one with a placeholder twice, one without any
ExampleCommand ==
  <<"e", "c", "h", "o", " ", "{", "n", "a", "m", "e", "}", " ", "{", "i", "n", "d",
     "e", "x", "}", " ", "{", "n", "a", "m", "e", ":", "q", "u", "o", "t", "e", "d",
     "}">>

PlaceholderCommands ==
  { ExampleCommand,
    <<"{", "i", "n", "d", "e", "x", "}", "{", "i", "n", "d", "e", "x", "}", " ", "{",
       "n", "a", "m", "e", ":", "q", "u", "o", "t", "e", "d", "}">>,
    <<"l", "s">> }

\* the names of the sessions: of the example, with a backslash, with a dollar sign
\* before a letter and before punctuation, and with the text of a placeholder
PlaceholderNames ==
  { <<"A">>, <<"B", " ", "\"", "x", "\"">>, <<"a", "\\", "b">>, <<"$", "H">>, <<"$",
     "&">>, <<"$", "$">>,
    <<"x", "{", "n", "a", "m", "e", "}">> }

\* the names of the targets of a dispatch, in its order
PlaceholderNameLists ==
  {<<n>> : n \in PlaceholderNames}
    \cup {<<n, m>> : n \in PlaceholderNames, m \in PlaceholderNames}

\* the second argument of the calls of sendResolvedCommand in the loop of
\* dispatchResolvedCommands, for targets of the names `names`
resolvedCommands(command, names) ==
  [i \in 1 .. Len(names) |-> injectPlaceholdersNamed(command, names[i], i)]

InitPlaceholders ==
  /\ terminals = AllTerminals
  /\ closedTerminals = {}
  /\ activeTerminal = NoTerminal
  /\ tracked = {}
  /\ trackers = [t \in AllTerminals |-> NewTracker]
  /\ streams = [t \in AllTerminals |-> {}]
  /\ matched = [t \in AllTerminals |-> FALSE]
  /\ disp = [s \in Slots |-> IdleDispatch]
  /\ bcast = IdleBroadcast
  /\ InitAutomation
  /\ sendTextThrows = FALSE
  /\ envEvents = 0
  /\ last = Step("init", NoTerminal, <<>>)
  /\ argument \in {<<c, names>> : c \in PlaceholderCommands,
     names \in PlaceholderNameLists}
  /\ result = <<>>
  /\ unready = [c \in ChainSlots |-> [t \in AllTerminals |-> NotReadySince]]
  /\ panel = NoPanel

\* the loop of dispatchResolvedCommands resolves the command for its targets
ResolveCommands ==
  /\ last.op = "init"
  /\ result' = resolvedCommands(argument[1], argument[2])
  /\ last' = Step("resolveCommands", NoTerminal, <<>>)
  /\ UNCHANGED <<envVars, engineVars, dispatchVars, envEvents, argument, unready, panel>>

NextPlaceholders == ResolveCommands

SpecPlaceholders == InitPlaceholders /\ [][NextPlaceholders]_vars

\* a name in double quotes, each backslash and each double quote after a backslash
RECURSIVE Escaped(_)
Escaped(name) ==
  IF name = <<>> THEN <<>>
  ELSE (IF Head(name) \in {"\\", "\""} THEN <<"\\", Head(name)>> ELSE <<Head(name)>>)
       \o Escaped(Tail(name))

\* the command from its letter i on with every placeholder replaced by what it stands
\* for: the position, the name, the name in quotes
RECURSIVE Substituted(_, _, _, _)
Substituted(command, i, name, index) ==
  IF i > Len(command) THEN <<>>
  ELSE IF StartsAt(command, i, IndexPlaceholder)
  THEN DecimalString(index)
       \o Substituted(command, i + Len(IndexPlaceholder), name, index)
  ELSE IF StartsAt(command, i, QuotedNamePlaceholder)
  THEN <<"\"">> \o Escaped(name) \o <<"\"">>
       \o Substituted(command, i + Len(QuotedNamePlaceholder), name, index)
  ELSE IF StartsAt(command, i, NamePlaceholder)
  THEN name \o Substituted(command, i + Len(NamePlaceholder), name, index)
  ELSE <<command[i]>> \o Substituted(command, i + 1, name, index)

\* C21: the commands of one dispatch are resolved in the order of the target list, one
\* per target, and in the command of target i every {index} is i, every {name} the name
\* of the target and every {name:quoted} the name in double quotes with its backslashes
\* and double quotes escaped; for the example command and the names A and B "x" these
\* are echo A 1 "A" and echo B "x" 2 "B \"x\"".
C21_PlaceholdersResolvedPerTarget ==
  last.op = "resolveCommands" =>
    /\ Len(result) = Len(argument[2])
    /\ \A i \in 1 .. Len(result) :
         result[i] = Substituted(argument[1], 1, argument[2][i], i)
    /\ argument = <<ExampleCommand, <<<<"A">>, <<"B", " ", "\"", "x", "\"">>>> >>
         => result = << <<"e", "c", "h", "o", " ", "A", " ", "1", " ", "\"", "A", "\"">>,
                        <<"e", "c", "h", "o", " ", "B", " ", "\"", "x", "\"", " ", "2",
                           " ", "\"", "B", " ", "\\", "\"", "x", "\\", "\"", "\"">> >>

\* C22: in a dispatch of more targets than the wave threshold every send but the first
\* follows a wave delay that began after the send before it, and no wave delay begins
\* before the first send or after the last; in a dispatch of at most as many targets as
\* the threshold no wave delay begins and every send follows the one before it directly.
C22_WaveDelayBetweenSends ==
  [][LET d == disp[SendSlot]
         e == disp'[SendSlot]
         useWave == Len(e.targets) > e.options.waveThreshold
     IN /\ (e.i # d.i /\ e.i >= 2) =>
             /\ e.targets = d.targets
             /\ e.i = d.i + 1
             /\ useWave <=> (d.pc = "waveDelay" /\ last'.op = "afterWaveDelay")
             /\ ~useWave => d.pc = "lineDelay"
        /\ (e.i # d.i /\ e.i = 1) => d.pc \in {"idle", "done", "failed"}
        /\ (e.pc = "waveDelay" /\ d.pc # "waveDelay") =>
             /\ useWave
             /\ e.i = d.i
             /\ 1 <= e.i /\ e.i < Len(e.targets)
             /\ d.pc = "lineDelay"
        /\ (d.pc = "waveDelay" /\ e # d) => e.i = d.i + 1]_vars

\* the third of three sends has followed its wave delay
C22_Witness ==
  /\ Len(disp[SendSlot].targets) = 3
  /\ disp[SendSlot].i = 3
  /\ last.op = "afterWaveDelay"

\* the second of two sends has followed the first directly
C22_WitnessAtThreshold ==
  /\ Len(disp[SendSlot].targets) = WaveThreshold
  /\ disp[SendSlot].i = 2
  /\ disp[SendSlot].pc # "waveDelay"

\* the candidates of the call that are open and ready now
ReadyNow ==
  SelectSeq(bcast'.candidates,
            LAMBDA t : t \in terminals /\ getState(t) \in {IDLE, CLI_WAITING})

\* this step ends the ready-wait of a call that was given a timeout
ReadyWaitEnds ==
  /\ bcast'.behavior.waitUntilReadyMs > 0
  /\ (bcast.pc \notin {"dispatching", "returned"} \/ last'.op = "broadcast")
  /\ bcast'.pc \in {"dispatching", "returned"}
  /\ Len(bcast'.candidates) > 0
  /\ bcast'.guarded # "dismissed"
  /\ bcast'.confirmed # "dismissed"

\* C23: a broadcast that was given a ready-wait timeout goes on waiting exactly while
\* the timeout has not elapsed and some candidate is not ready; when it ends before the
\* timeout all candidates are ready and the dispatch is to all of them; when it ends at
\* the timeout the dispatch is to all candidates if forcing is allowed and otherwise to
\* exactly the candidates ready then, and if these are none the call warns, writes
\* nothing and returns 0.
C23_ReadyWaitOutcome ==
  [][LET b == bcast'
         waitMs == b.behavior.waitUntilReadyMs
         allReady == Len(ReadyNow) = Len(b.candidates)
         timedOut == b.elapsed >= waitMs
         chosen == IF timedOut /\ ~b.behavior.allowForceAfterReadyTimeout
                   THEN ReadyNow ELSE b.candidates
     IN /\ (b.pc = "readyWait" /\ b # bcast)
             => (~timedOut /\ ~allReady /\ waitMs > 0 /\ last'.wrote = <<>>)
        /\ ReadyWaitEnds =>
             /\ timedOut \/ allReady
             /\ ~timedOut => chosen = ReadyNow
             /\ Len(chosen) > 0 =>
                  /\ b.pc = "dispatching"
                  /\ disp'[SendSlot].targets = chosen
                  /\ disp'[SendSlot].i = 1
             /\ Len(chosen) = 0 =>
                  /\ b.pc = "returned"
                  /\ b.ret = 0
                  /\ b.warning = NoReadyWarning
                  /\ last'.wrote = <<>>
                  /\ disp'[SendSlot] = disp[SendSlot]]_vars

\* a ready-wait ended at its timeout with some but not all candidates ready and no
\* forcing, and the dispatch is to the ready ones
C23_Witness ==
  /\ bcast.pc = "dispatching"
  /\ bcast.behavior.waitUntilReadyMs > 0
  /\ ~bcast.behavior.allowForceAfterReadyTimeout
  /\ bcast.elapsed >= bcast.behavior.waitUntilReadyMs
  /\ last.op = "readyWaitPoll"
  /\ Len(disp[SendSlot].targets) < Len(bcast.candidates)

\* a ready-wait ended at its timeout with no candidate ready and no forcing
C23_WitnessNoneReady ==
  /\ bcast.pc = "returned"
  /\ bcast.warning = NoReadyWarning
  /\ last.op = "readyWaitPoll"

\* a ready-wait ended at its timeout with a candidate not ready and the dispatch was
\* forced to all candidates
C23_WitnessForced ==
  /\ bcast.pc = "dispatching"
  /\ bcast.behavior.allowForceAfterReadyTimeout
  /\ last.op = "readyWaitPoll"
  /\ bcast.elapsed >= bcast.behavior.waitUntilReadyMs
  /\ \E i \in 2 .. Len(bcast.candidates) :
       getState(bcast.candidates[i]) \in {CLI_THINKING, RUNNING_PROGRAM}

\* a ready-wait ended before its timeout because all candidates had become ready
C23_WitnessAllReady ==
  /\ bcast.pc = "dispatching"
  /\ last.op = "readyWaitPoll"
  /\ bcast.elapsed < bcast.behavior.waitUntilReadyMs

\* C24: when broadcast has returned, the value it returned is the number of distinct
\* sessions that received the text of the command from this call, and for a blank
\* command or an empty target list it is 0 and the call has written nothing.
C24_ReturnCountsSessionsSent ==
  bcast.pc = "returned" =>
    /\ bcast.ret = Cardinality(disp[SendSlot].reached)
    /\ (bcast.text = <<>> \/ bcast.deduped = <<>>) =>
         /\ bcast.ret = 0
         /\ disp[SendSlot].written = {}

\* the same while no session has been closed
C24_ReturnCountsWhileAllOpen ==
  closedTerminals = {} => C24_ReturnCountsSessionsSent

\* broadcast returned the number of its targets, one of which was closed before the
\* text of the command was written to it
C24_ClosedTargetCounted ==
  /\ bcast.pc = "returned"
  /\ bcast.ret = Len(disp[SendSlot].targets)
  /\ \E t \in disp[SendSlot].written : t \notin disp[SendSlot].reached

\* C25: a session that has been closed has no tracker in the state engine and no armed
\* timer, and its state reads IDLE (a closed session is never opened nor starts an
\* execution again).
C25_ClosedSessionHasNoTracker ==
  \A t \in closedTerminals :
    /\ t \notin tracked
    /\ ~trackers[t].evaluateTimer
    /\ ~trackers[t].quietTimer.armed
    /\ getState(t) = IDLE

\* the part of C25 about the timers and the state
C25_ClosedSessionIsIdleWithoutTimers ==
  \A t \in closedTerminals :
    /\ ~trackers[t].evaluateTimer
    /\ ~trackers[t].quietTimer.armed
    /\ getState(t) = IDLE
    /\ t \in tracked => trackers[t] = NewTracker

\* notifyInputSent has created a tracker for a closed session
C25_TrackerOfClosedSession ==
  /\ last.op = "inputSent"
  /\ last.term \in closedTerminals
  /\ last.term \in tracked

(***************************************************************************)
(* SpecPrompts: the ready-prompt patterns of the state engine, reloaded    *)
(* from the setting cursorTerminalNexus.cliPrompts.                        *)
(***************************************************************************)
\* DEFAULT_CLI_PROMPT_PATTERNS, each of the three chevron glyphs written >>
DEFAULT_CLI_PROMPT_PATTERNS ==
  << <<"(", "?", ":", "^", "|", "\\", "n", ")", "\\", "s", "*", "(", "?", ":", "c",
     "o", "d", "e", "x", "|", "c", "l", "a", "u", "d", "e", "(", "?", ":", "\\", "s",
     "+", "c", "o", "d", "e", ")", "?", "|", "q", "w", "e", "n", "|", "g", "e", "m",
     "i", "n", "i", ")", "?", "\\", "s", "*", "(", "?", ":", ">", "|", ">>", "|", ">>",
     "|", ">>", "|", "\\", "$", ")", "\\", "s", "*", "$">>,
     <<"(", "?", ":", "^", "|", "\\", "n", ")", "\\", "s", "*", "(", "?", ":", "Y",
        "o", "u", "|", "I", "n", "p", "u", "t", ")", "\\", "s", "*", ":", "\\", "s",
        "*", "$">>,
     <<"(", "?", ":", "^", "|", "\\", "n", ")", "[", "^", "\\", "n", "]", "{", "0",
        ",", "8", "0", "}", "(", "?", ":", ">>", "|", ">>", "|", ">>", ")", "\\", "s",
        "*", "$">> >>

AsciiLetters ==
  { "a", "b", "c", "d", "e", "f", "g", "h", "i", "j", "k", "l", "m", "n", "o", "p", "q", "r", "s", "t", "u", "v", "w", "x", "y", "z",
    "A", "B", "C", "D", "E", "F", "G", "H", "I", "J", "K", "L", "M", "N", "O", "P",
       "Q", "R", "S", "T", "U", "V", "W", "X", "Y", "Z" }

\* the flags the RegExp constructor knows
RegExpFlags == {"d", "g", "i", "m", "s", "u", "v", "y"}

\* the index of the ] that closes a character class whose text begins at i, 0 if none
RECURSIVE ClassEnd(_, _)
ClassEnd(p, i) ==
  IF i > Len(p) THEN 0
  ELSE IF p[i] = "\\" THEN ClassEnd(p, i + 2)
  ELSE IF p[i] = "]" THEN i
  ELSE ClassEnd(p, i + 1)

\* the index of the } that closes the quantifier {n}, {n,} or {n,m} opened at i, 0 if
\* the text at i is no such quantifier
BraceEnd(p, i) ==
  LET ends == {j \in i + 1 .. Len(p) : p[j] = "}"}
      j == CHOOSE k \in ends : \A l \in ends : k <= l
      fields == split(SubSeq(p, i + 1, j - 1), ",")
  IN IF ends = {} THEN 0
     ELSE IF /\ Len(fields) \in {1, 2}
             /\ IsDigits(fields[1])
             /\ Len(fields) = 2 => (fields[2] = <<>> \/ IsDigits(fields[2]))
     THEN j ELSE 0

\* a term of a pattern read: whether it is well formed, the index after it, the
\* number of open groups after it, and whether it is an atom, a quantified atom or none
Term(ok, next, depth, prev) == [ok |-> ok, next |-> next, depth |-> depth, prev |-> prev]

\* the term of pattern p at index i, inside depth open groups, after a term prev: the
\* syntax errors of the RegExp constructor without the u and v flags, for patterns
\* without < (no lookbehind, no named group) and without a range in a class
RegExpTerm(p, i, depth, prev) ==
  CASE p[i] = "\\" -> Term(i < Len(p), i + 2, depth, "atom")
    [] p[i] = "(" ->
         IF i < Len(p) /\ p[i + 1] = "?"
         THEN Term(i + 2 <= Len(p) /\ p[i + 2] \in {":", "=", "!"}, i + 3, depth + 1,
                   "none")
         ELSE Term(TRUE, i + 1, depth + 1, "none")
    [] p[i] = ")" -> Term(depth > 0, i + 1, depth - 1, "atom")
    [] p[i] = "[" -> Term(ClassEnd(p, i + 1) # 0, ClassEnd(p, i + 1) + 1, depth, "atom")
    [] p[i] \in {"*", "+"} -> Term(prev = "atom", i + 1, depth, "quantified")
    [] p[i] = "?" ->
         Term(prev # "none", i + 1, depth, IF prev = "atom" THEN "quantified" ELSE "none")
    [] p[i] = "{" /\ BraceEnd(p, i) # 0 ->
         LET fields == split(SubSeq(p, i + 1, BraceEnd(p, i) - 1), ",")
         IN Term(/\ prev = "atom"
                 /\ (Len(fields) = 2 /\ fields[2] # <<>>)
                      => Number(fields[1]) <= Number(fields[2]),
                 BraceEnd(p, i) + 1, depth, "quantified")
    [] p[i] \in {"|", "^", "$"} -> Term(TRUE, i + 1, depth, "none")
    [] OTHER -> Term(TRUE, i + 1, depth, "atom")

\* whether the pattern is well formed from index i on
RECURSIVE RegExpSyntax(_, _, _, _)
RegExpSyntax(p, i, depth, prev) ==
  IF i > Len(p) THEN depth = 0
  ELSE IF ~RegExpTerm(p, i, depth, prev).ok THEN FALSE
  ELSE RegExpSyntax(p, RegExpTerm(p, i, depth, prev).next,
                    RegExpTerm(p, i, depth, prev).depth, RegExpTerm(p, i, depth, prev).prev)

\* what compilePromptRegex returns when it compiles nothing
undefined == [compiled |-> FALSE, source |-> <<>>, flags |-> <<>>]

\* new RegExp(source, flags) inside try, undefined from the catch block
NewRegExp(source, flags) ==
  IF /\ \A i \in 1 .. Len(flags) : flags[i] \in RegExpFlags
     /\ \A i, j \in 1 .. Len(flags) : flags[i] = flags[j] => i = j
     /\ ~({"u", "v"} \subseteq Range(flags))
     /\ RegExpSyntax(source, 1, 0, "none")
  THEN [compiled |-> TRUE, source |-> source, flags |-> flags]
  ELSE undefined

\* normalizeRegexFlags: m is added, g and y and repeated flags are dropped
RECURSIVE NormalizeFlagsInto(_, _)
NormalizeFlagsInto(source, deduped) ==
  IF source = <<>> THEN deduped
  ELSE IF Head(source) \in {"g", "y"} \/ Head(source) \in Range(deduped)
  THEN NormalizeFlagsInto(Tail(source), deduped)
  ELSE NormalizeFlagsInto(Tail(source), Append(deduped, Head(source)))

normalizeRegexFlags(rawFlags) == NormalizeFlagsInto(rawFlags \o <<"m">>, <<>>)

\* compilePromptRegex: blank text compiles nothing; /source/flags is taken apart at
\* its last slash when only letters follow it; anything else is a source with flag m
compilePromptRegex(pattern) ==
  LET raw == trim(pattern)
      slashes == {j \in 2 .. Len(raw) : raw[j] = "/"}
      j == CHOOSE k \in slashes : \A l \in slashes : l <= k
      slashMatch ==
        /\ raw[1] = "/"
        /\ slashes # {}
        /\ \A k \in j + 1 .. Len(raw) : raw[k] \in AsciiLetters
        /\ \A k \in 2 .. j - 1 : raw[k] \notin {"\n", "\r"}
  IN IF raw = <<>> THEN undefined
     ELSE IF slashMatch
     THEN NewRegExp(SubSeq(raw, 2, j - 1), normalizeRegexFlags(SubSeq(raw, j + 1, Len(raw))))
     ELSE NewRegExp(raw, <<"m">>)

\* compilePromptRegexes: the patterns that compile, in their order
compilePromptRegexes(patterns) ==
  SelectSeq([i \in 1 .. Len(patterns) |-> compilePromptRegex(patterns[i])],
            LAMBDA regex : regex.compiled)

\* reloadPromptRegexes when it compiles the configured patterns only
reloadConfiguredOnly(configured) ==
  LET strings == SelectSeq(configured.items, LAMBDA item : item.isString)
      candidatePatterns ==
        IF configured.isArray THEN [i \in 1 .. Len(strings) |-> strings[i].text] ELSE <<>>
  IN compilePromptRegexes(candidatePatterns)

\* reloadPromptRegexes: the value it assigns to promptRegexes for the configured value
reloadPromptRegexes(configured) ==
  LET strings == SelectSeq(configured.items, LAMBDA item : item.isString)
      candidatePatterns ==
        IF configured.isArray THEN [i \in 1 .. Len(strings) |-> strings[i].text] ELSE <<>>
      compiled == compilePromptRegexes(candidatePatterns)
  IN IF Len(compiled) > 0 THEN compiled
     ELSE compilePromptRegexes(DEFAULT_CLI_PROMPT_PATTERNS)

\* an item of the configured array: a string, or a value of another type
StringItem(text) == [isString |-> TRUE, text |-> text]

OtherItem == [isString |-> FALSE, text |-> <<>>]

\* the items of the operator: empty, blank, a word, an open group, a lone quantifier,
\* a quantified word between blanks, literals with flags i and g, with an unknown flag,
\* with an upper-case flag and with an open group, and a number
PromptItems ==
  { StringItem(<<>>), StringItem(<<" ", " ">>), StringItem(<<"o", "k", ">">>),
     StringItem(<<"(", "o", "k">>),
    StringItem(<<"*">>), StringItem(<<" ", "o", "+", "k", "?", " ">>),
    StringItem(<<"/", "o", "{", "1", ",", "2", "}", " ", "$", "/", "g", "i">>),
    StringItem(<<"/", "o", "k", "/", "x">>),
    StringItem(<<"/", "o", "k", "/", "I">>),
    StringItem(<<"/", "(", "/", "m">>), OtherItem }

\* highest number of items of a configured array
MaxPromptItems == 2

\* the values of the setting: the default, a value that is no array, arrays of items
PromptConfigurations ==
  { [isArray |-> TRUE,
     items |-> [i \in 1 .. Len(DEFAULT_CLI_PROMPT_PATTERNS) |->
                  StringItem(DEFAULT_CLI_PROMPT_PATTERNS[i])]],
    [isArray |-> FALSE, items |-> <<>>] }
    \cup UNION {{[isArray |-> TRUE, items |-> items] : items \in [1 .. n -> PromptItems]} :
                  n \in 0 .. MaxPromptItems}

\* the constructor of TerminalStateManager has called reloadPromptRegexes; result holds
\* promptRegexes
InitPrompts ==
  /\ terminals = AllTerminals
  /\ closedTerminals = {}
  /\ activeTerminal = NoTerminal
  /\ tracked = {}
  /\ trackers = [t \in AllTerminals |-> NewTracker]
  /\ streams = [t \in AllTerminals |-> {}]
  /\ matched = [t \in AllTerminals |-> FALSE]
  /\ disp = [s \in Slots |-> IdleDispatch]
  /\ bcast = IdleBroadcast
  /\ InitAutomation
  /\ sendTextThrows = FALSE
  /\ envEvents = 0
  /\ last = Step("init", NoTerminal, <<>>)
  /\ argument \in PromptConfigurations
  /\ result = reloadPromptRegexes(argument)
  /\ unready = [c \in ChainSlots |-> [t \in AllTerminals |-> NotReadySince]]
  /\ panel = NoPanel

\* onDidChangeConfiguration for the setting: reloadPromptRegexes
ReloadPromptRegexes(configured) ==
  /\ argument' = configured
  /\ result' = reloadPromptRegexes(configured)
  /\ last' = Step("reloadPromptRegexes", NoTerminal, <<>>)
  /\ UNCHANGED <<envVars, engineVars, dispatchVars, envEvents, unready, panel>>

NextPrompts == \E configured \in PromptConfigurations : ReloadPromptRegexes(configured)

SpecPrompts == InitPrompts /\ [][NextPrompts]_vars

\* the configured texts that are strings, not blank and compile, in their order
ValidConfigured ==
  IF argument.isArray
  THEN SelectSeq(argument.items,
                 LAMBDA item : /\ item.isString
                               /\ StripWhitespace(item.text) # <<>>
                               /\ compilePromptRegex(item.text).compiled)
  ELSE <<>>

\* C26: after the construction and after every change of the setting the list of active
\* ready-prompt patterns is not empty and holds compiled patterns only: the configured
\* strings that are not blank and compile, one pattern for each in their order, and the
\* three built-in default patterns if there is no such string.
C26_PromptRegexesNeverEmpty ==
  /\ Len(result) > 0
  /\ \A i \in 1 .. Len(result) : result[i].compiled
  /\ IF ValidConfigured = <<>>
     THEN /\ Len(result) = Len(DEFAULT_CLI_PROMPT_PATTERNS)
          /\ \A i \in 1 .. Len(result) :
               /\ result[i].source = DEFAULT_CLI_PROMPT_PATTERNS[i]
               /\ result[i].flags = <<"m">>
     ELSE /\ Len(result) = Len(ValidConfigured)
          /\ \A i \in 1 .. Len(result) :
               result[i] = compilePromptRegex(ValidConfigured[i].text)

\* the setting changed to a pattern that does not compile followed by one that does
C26_Witness ==
  /\ last.op = "reloadPromptRegexes"
  /\ argument.isArray
  /\ Len(argument.items) = 2
  /\ argument.items[1] = StringItem(<<"(", "o", "k">>)
  /\ argument.items[2] = StringItem(<<"/", "o", "{", "1", ",", "2", "}", " ", "$", "/",
     "g", "i">>)
  /\ Len(result) = 1

\* the setting changed to patterns none of which compiles, and the defaults are active
C26_WitnessDefaults ==
  /\ last.op = "reloadPromptRegexes"
  /\ argument.isArray
  /\ Len(argument.items) = 2
  /\ argument.items[1] = StringItem(<<"/", "o", "k", "/", "x">>)
  /\ argument.items[2] = StringItem(<<" ", " ">>)
  /\ Len(result) = 3

(***************************************************************************)
(* Claims about the generations, the evaluation and the input             *)
(* notification of the state engine, checked under SpecEngine.             *)
(***************************************************************************)
\* what a continuation may change of the tracker of session t
TrackerContent(tr) ==
  <<tr.state, tr.buffer, tr.pendingThinkingSignal, tr.isInteractiveCli>>

\* the step is the callback of the evaluation timer of session t and changes the
\* state, the buffer or a flag of its tracker
EvaluationChanges(t) ==
  /\ last'.op = "evaluate" /\ last'.term = t
  /\ TrackerContent(trackers'[t]) # TrackerContent(trackers[t])

\* the same of the quiet-probe timer
QuietProbeChanges(t) ==
  /\ last'.op = "quietProbe" /\ last'.term = t
  /\ TrackerContent(trackers'[t]) # TrackerContent(trackers[t])

\* the same of a stream consumer
ConsumerChanges(t) ==
  /\ last'.op \in {"chunk", "staleChunk"} /\ last'.term = t
  /\ TrackerContent(trackers'[t]) # TrackerContent(trackers[t])

\* C27: a callback of the evaluation timer, a callback of the quiet-probe timer and a
\* stream consumer change the state, the buffer or a flag of the tracker only if the
\* generation of the tracker is the one in which the timer or the consumer was created.
C27_ContinuationsCheckGeneration ==
  [][\A t \in EngineTerminals :
       /\ EvaluationChanges(t) =>
            trackers[t].evaluateVersion = trackers[t].executionVersion
       /\ QuietProbeChanges(t) =>
            trackers[t].quietTimer.version = trackers[t].executionVersion
       /\ ConsumerChanges(t) => last'.args[1] = trackers[t].executionVersion]_vars

\* the part of C27 about the quiet-probe timer and the stream consumer
C27_ProbeAndConsumerCheckGeneration ==
  [][\A t \in EngineTerminals :
       /\ QuietProbeChanges(t) =>
            trackers[t].quietTimer.version = trackers[t].executionVersion
       /\ ConsumerChanges(t) => last'.args[1] = trackers[t].executionVersion]_vars

\* an evaluation timer created in one generation is armed in a later one, whose
\* tracker holds output
C27_StaleEvaluationArmed ==
  \E t \in EngineTerminals :
    /\ t \in tracked
    /\ trackers[t].evaluateTimer
    /\ trackers[t].evaluateVersion < trackers[t].executionVersion
    /\ trackers[t].buffer # <<>>

\* a stream consumer of an earlier generation has read a chunk and returned
C27_StaleConsumerReturned ==
  /\ last.op = "staleChunk"
  /\ last.term \in tracked
  /\ last.args[1] < trackers[last.term].executionVersion

\* the state an evaluation of tracker tr ends in, by the rules in their priority
EvaluatedState(tr) ==
  CASE IsPrompt(tr.buffer) /\ tr.state \in {RUNNING_PROGRAM, CLI_THINKING} -> CLI_WAITING
    [] IsPrompt(tr.buffer) -> tr.state
    [] tr.state = CLI_WAITING /\ tr.pendingThinkingSignal -> CLI_THINKING
    [] tr.state = RUNNING_PROGRAM /\ tr.isInteractiveCli /\ tr.pendingThinkingSignal ->
         CLI_THINKING
    [] OTHER -> tr.state

\* C28: an evaluation ends in the state the rules give in their priority (a matching
\* buffer moves RUNNING_PROGRAM and CLI_THINKING to CLI_WAITING; otherwise a pending
\* signal moves CLI_WAITING, and RUNNING_PROGRAM of an interactive session, to
\* CLI_THINKING; otherwise the state stays), fires a state change exactly if the state
\* changed, leaves IDLE and a non-interactive RUNNING_PROGRAM without prompt as they
\* are, changes neither buffer nor generation, and leaves the pending signal clear.
C28_EvaluationRules ==
  [][\A t \in EngineTerminals :
       (last'.op = "evaluate" /\ last'.term = t) =>
         LET tr == trackers[t]
             after == trackers'[t]
         IN /\ after.state = EvaluatedState(tr)
            /\ ~after.pendingThinkingSignal
            /\ after.buffer = tr.buffer
            /\ after.executionVersion = tr.executionVersion
            /\ after.isInteractiveCli = tr.isInteractiveCli
            /\ last'.events = IF after.state = tr.state THEN <<>> ELSE <<after.state>>
            /\ tr.state = IDLE => after.state = IDLE
            /\ (tr.state = RUNNING_PROGRAM /\ ~tr.isInteractiveCli /\ ~IsPrompt(tr.buffer))
                 => after.state = RUNNING_PROGRAM]_vars

\* an evaluation has moved an interactive session to CLI_THINKING
C28_Witness ==
  /\ last.op = "evaluate"
  /\ last.events = <<CLI_THINKING>>
  /\ trackers[last.term].state = CLI_THINKING
  /\ ~trackers[last.term].pendingThinkingSignal

\* an evaluation has left a non-interactive session without prompt in RUNNING_PROGRAM
C28_WitnessUnchanged ==
  /\ last.op = "evaluate"
  /\ last.events = <<>>
  /\ trackers[last.term].state = RUNNING_PROGRAM
  /\ ~trackers[last.term].isInteractiveCli
  /\ trackers[last.term].buffer # <<>>
  /\ ~IsPrompt(trackers[last.term].buffer)

\* an evaluation has moved a session to CLI_WAITING
C28_WitnessPrompt ==
  /\ last.op = "evaluate"
  /\ last.events = <<CLI_WAITING>>

\* C29: an input-sent notification moves a session that is CLI_WAITING or
\* RUNNING_PROGRAM to CLI_THINKING, fires that change and arms the quiet probe anew for
\* the current generation; it leaves the tracker of a session that is IDLE or
\* CLI_THINKING as it is; and it never changes the buffer, the generation, the flags or
\* the evaluation timer.
C29_InputSentRules ==
  [][\A t \in EngineTerminals :
       (last'.op = "inputSent" /\ last'.term = t) =>
         LET tr == getOrCreateTracker(t)
             after == trackers'[t]
         IN /\ t \in tracked'
            /\ tr.state \in {CLI_WAITING, RUNNING_PROGRAM} =>
                 /\ after.state = CLI_THINKING
                 /\ last'.events = <<CLI_THINKING>>
                 /\ after.quietTimer =
                      [armed |-> TRUE, version |-> tr.executionVersion, quiet |-> TRUE]
            /\ tr.state \in {IDLE, CLI_THINKING} =>
                 /\ after = tr
                 /\ last'.events = <<>>
            /\ after.buffer = tr.buffer
            /\ after.executionVersion = tr.executionVersion
            /\ after.pendingThinkingSignal = tr.pendingThinkingSignal
            /\ after.isInteractiveCli = tr.isInteractiveCli
            /\ after.evaluateTimer = tr.evaluateTimer]_vars

\* an input-sent notification has moved a session with output in its buffer to
\* CLI_THINKING and armed its quiet probe
C29_Witness ==
  /\ last.op = "inputSent"
  /\ last.events = <<CLI_THINKING>>
  /\ trackers[last.term].state = CLI_THINKING
  /\ trackers[last.term].quietTimer.armed
  /\ trackers[last.term].buffer # <<>>

\* an input-sent notification has left a session in CLI_THINKING
C29_WitnessUnchanged ==
  /\ last.op = "inputSent"
  /\ last.events = <<>>
  /\ trackers[last.term].state = CLI_THINKING

(***************************************************************************)
(* SpecQuiet: the state engine with its timers in the order of their       *)
(* delays, and with every armed timer firing in the end.                   *)
(***************************************************************************)
\* EVALUATE_DELAY_MS, CLI_QUIET_TO_WAIT_MS and CLI_STARTUP_WAIT_MS
EVALUATE_DELAY_MS == 80

CLI_QUIET_TO_WAIT_MS == 650

CLI_STARTUP_WAIT_MS == 1500

\* the quiet-probe timer fires after the evaluation timer: whatever arms or re-arms the
\* probe does so no earlier than the evaluation timer was armed, and for a longer delay
QuietTimerFiresInTime(t) ==
  /\ EVALUATE_DELAY_MS < CLI_QUIET_TO_WAIT_MS
  /\ EVALUATE_DELAY_MS < CLI_STARTUP_WAIT_MS
  /\ ~(t \in tracked /\ trackers[t].evaluateTimer)
  /\ QuietTimerFires(t)

NextQuiet ==
  \E t \in EngineTerminals :
    \/ CloseTerminal(t) /\ UNCHANGED <<envEvents, sendTextThrows, restVars>>
    \/ \E c \in CommandLines : handleExecutionStart(t, c) /\ UNCHANGED <<envEvents, restVars>>
    \/ handleExecutionEnd(t) /\ UNCHANGED <<envEvents, restVars>>
    \/ \E v \in 1 .. MaxVersion, chunk \in Chunks :
         StreamChunk(t, v, chunk) /\ UNCHANGED <<envEvents, restVars>>
    \/ EvaluateTimerFires(t) /\ UNCHANGED <<envEvents, restVars>>
    \/ QuietTimerFiresInTime(t) /\ UNCHANGED <<envEvents, restVars>>
    \/ InputSent(t) /\ UNCHANGED <<envEvents, restVars>>

\* the event loop runs the callback of every timer that stays armed
SpecQuiet ==
  /\ InitEngine
  /\ [][NextQuiet]_vars
  /\ \A t \in EngineTerminals :
       /\ WF_vars(EvaluateTimerFires(t) /\ UNCHANGED <<envEvents, restVars>>)
       /\ WF_vars(QuietTimerFiresInTime(t) /\ UNCHANGED <<envEvents, restVars>>)

\* a step in which output arrives, input is sent, an execution starts or ends, or the
\* session is closed
Disturbance ==
  last'.op \in {"chunk", "inputSent", "executionStart", "executionEnd", "close"}

\* the session runs an interactive CLI and is RUNNING_PROGRAM or CLI_THINKING
BusyInteractive(t) ==
  /\ t \in tracked
  /\ trackers[t].isInteractiveCli
  /\ trackers[t].state \in {RUNNING_PROGRAM, CLI_THINKING}

\* C30: if from some time on no output arrives, no input is sent and no execution
\* starts or ends, then from some time on no interactive session is RUNNING_PROGRAM or
\* CLI_THINKING (the quiet probe has moved it to CLI_WAITING, where it stays); and a
\* callback of the quiet probe never changes the state of a session that is not
\* interactive.
C30_QuietInteractiveBecomesWaiting ==
  /\ (<>[][~Disturbance]_vars) => \A t \in EngineTerminals : <>[](~BusyInteractive(t))
  /\ [][\A t \in EngineTerminals :
          (last'.op = "quietProbe" /\ last'.term = t /\ ~trackers[t].isInteractiveCli)
            => (trackers'[t].state = trackers[t].state /\ last'.events = <<>>)]_vars

\* the quiet probe has moved an interactive session to CLI_WAITING
C30_Witness ==
  /\ last.op = "quietProbe"
  /\ last.events = <<CLI_WAITING>>
  /\ trackers[last.term].isInteractiveCli
  /\ trackers[last.term].state = CLI_WAITING

\* the quiet probe has fired for a session that is not interactive and is CLI_THINKING
C30_WitnessNotInteractive ==
  /\ last.op = "quietProbe"
  /\ last.term \in tracked
  /\ ~trackers[last.term].isInteractiveCli
  /\ trackers[last.term].state = CLI_THINKING

\* an interactive session that is RUNNING_PROGRAM or CLI_THINKING has an armed quiet
\* probe of its generation
C30_BusyInteractiveHasProbe ==
  \A t \in EngineTerminals :
    BusyInteractive(t) =>
      /\ trackers[t].quietTimer.armed
      /\ trackers[t].quietTimer.version = trackers[t].executionVersion
      /\ trackers[t].quietTimer.quiet

(***************************************************************************)
(* The submission protocol of sendResolvedCommand, checked on the calls of *)
(* SpecBroadcast.                                                          *)
(***************************************************************************)
\* the writes of kind kind in the last step
WritesOfKind(kind) == {i \in 1 .. Len(last.wrote) : last.wrote[i].kind = kind}

\* the state engine has been notified of input to session t and nothing has happened to
\* the session since: notifyInputSent leaves no session RUNNING_PROGRAM or CLI_WAITING
NotifiedOfInput(t) == getState(t) \notin {RUNNING_PROGRAM, CLI_WAITING}

\* C31: for each line of the resolved text, in order, the state engine is notified that
\* input is imminent before the line is written (so the session is not RUNNING_PROGRAM
\* or CLI_WAITING when the line is written); the line is written without a newline and
\* is followed by the queuing keystroke only if the target is a recognised interactive
\* CLI that is CLI_THINKING at that moment; the lines are written in their order.
C31_EachLineNotifiedThenWritten ==
  \A i \in WritesOfKind("text") :
    LET t == last.wrote[i].target
        d == disp[SendSlot]
    IN /\ last.wrote[i].term = t
       /\ NotifiedOfInput(t)
       /\ d.ln \in 1 .. Len(d.lines)
       /\ last.wrote[i].text = d.lines[d.ln]
       /\ "\n" \notin Range(last.wrote[i].text)
       /\ (i + 1) \in WritesOfKind("tab") <=>
            (isInteractiveCliSession(t) /\ getState(t) = CLI_THINKING)
       /\ WritesOfKind("tab") \subseteq {i + 1}

\* the same for the first line of the text of each target
C31_FirstLineNotifiedThenWritten ==
  disp[SendSlot].ln = 1 => C31_EachLineNotifiedThenWritten

\* the second line of a text was written to an interactive session that the quiet probe
\* had moved to CLI_WAITING after the first line: no notification, no queuing keystroke
C31_SecondLineWithoutNotification ==
  /\ WritesOfKind("text") # {}
  /\ disp[SendSlot].ln = 2
  /\ \E i \in WritesOfKind("text") :
       /\ getState(last.wrote[i].target) = CLI_WAITING
       /\ isInteractiveCliSession(last.wrote[i].target)
  /\ WritesOfKind("tab") = {}

(***************************************************************************)
(* Cancellation of a chain run, checked on the runs of SpecAutomation.     *)
(***************************************************************************)
\* the call of executeChain in slot c is in flight and its run is no longer active
ChainStopped(c) ==
  /\ chains[c].pc # "idle"
  /\ ~(status.chain.active /\ chains[c].runId = chainRunId)

\* C32: once the run of a call of executeChain is stopped, the call begins no step after
\* the one in progress and no further slice of a delay or of a wait for readiness (the
\* run is tested before every step and before every slice): the call stays where it is
\* until it returns; and the delay step or wait-ready step in progress ends when its
\* slice of at most 200 ms ends, whatever is left of its duration, without a write and
\* without a change of the status.
C32_StopEndsChainAtNextSlice ==
  [][\A c \in ChainSlots :
       ChainStopped(c) =>
         /\ chains'[c] = chains[c] \/ chains'[c] = IdleChain
         /\ (last'.op \in {"delaySlice", "readyProbe"}
               /\ last'.resumed = ChainRun(chains[c])) =>
              /\ chains[c].pc \in {"delay", "waitReady"}
              /\ chains'[c] = IdleChain
              /\ last'.wrote = <<>>
              /\ last'.effects = <<>>
              /\ status' = status]_vars

\* the errors "Chain stopped." caught in the last step by a call whose run was stopped
StoppedFrames ==
  {last.caught[i].frame : i \in {k \in 1 .. Len(last.caught) :
                                   /\ last.caught[k].error = <<"Chain stopped.", 0>>
                                   /\ ~last.caught[k].active}}

\* a delay step of a stopped run ended at the end of its first slice with a slice left
C32_Witness ==
  /\ last.op = "delaySlice"
  /\ \E ch \in StoppedFrames :
       /\ ch.steps[ch.stepIndex + 1].kind = "delay"
       /\ ch.remaining = READY_PROBE_INTERVAL_MS
  /\ \A c \in ChainSlots : chains[c] = IdleChain

\* a wait for readiness of a stopped run ended at its next probe, before its timeout
\* and with a command step after it that was not begun
C32_WitnessWaitReady ==
  /\ last.op = "readyProbe"
  /\ last.wrote = <<>>
  /\ \E ch \in StoppedFrames :
       /\ ch.steps[ch.stepIndex + 1].kind = "waitReady"
       /\ ch.elapsed <= ch.defaultWaitTimeoutMs
       /\ ch.stepIndex + 1 < Len(ch.steps)

\* the command step of a stopped run came back from its dispatch and the delay step
\* after it was not begun
C32_WitnessCommand ==
  /\ last.op \in {"restore", "afterLineDelay"}
  /\ last.resumed.kind = "chain"
  /\ last.resumed.run # chainRunId
  /\ last.effects = <<>>
  /\ \A c \in ChainSlots : chains[c] = IdleChain

(***************************************************************************)
(* The foreground session around sendEnterKey, checked on the calls of     *)
(* SpecBroadcast.                                                          *)
(***************************************************************************)
\* the dispatch of slot s goes on from the sendSequence command of its target's line
SubmitReturns(s) ==
  /\ disp[s].pc \in {"commandWait", "commandFailed"}
  /\ disp'[s].pc = "lineDelay"

\* C33: the session sendEnterKey finds in the foreground when it brings target T to the
\* foreground is in the foreground again when the submit of the line is over, provided
\* it is a session other than T and is still open; and when a dispatch is complete and
\* nothing but the dispatch has changed the foreground, the foreground session is the
\* one from before the dispatch.
C33_ForegroundRestored ==
  /\ [][\A s \in Slots :
          /\ (disp[s].pc # "enterWait" /\ disp'[s].pc = "enterWait") =>
               /\ disp'[s].previousActive = activeTerminal
               /\ activeTerminal' = disp'[s].targets[disp'[s].i]
          /\ SubmitReturns(s) =>
               LET previous == disp[s].previousActive
               IN (/\ previous # NoTerminal
                   /\ previous # disp[s].targets[disp[s].i]
                   /\ previous \in terminals) => activeTerminal' = previous]_vars
  /\ [](\A s \in Slots :
          (disp[s].pc = "done" /\ envEvents = 0 /\ pollingRunId = 0 /\ chainRunId = 0) =>
             activeTerminal = 1)

\* the submit of a line to a target is over and the session that was in the foreground
\* before, another one, is in the foreground again
C33_Witness ==
  /\ last.op = "restore"
  /\ disp[SendSlot].pc = "lineDelay"
  /\ disp[SendSlot].shouldRestorePrevious
  /\ activeTerminal = disp[SendSlot].previousActive
  /\ activeTerminal # last.term
  /\ last.term \in terminals

\* a dispatch of two lines to all sessions is complete and session 1 is in the
\* foreground as before
C33_WitnessDispatch ==
  /\ disp[SendSlot].pc = "done"
  /\ envEvents = 0
  /\ disp[SendSlot].reached = AllTerminals
  /\ Len(disp[SendSlot].lines) = 2
  /\ activeTerminal = 1

\* the operator brought another session to the foreground during the submit, and the
\* submit put the earlier one back
C33_WitnessOverFocus ==
  /\ last.op = "restore"
  /\ envEvents = 1
  /\ closedTerminals = {}
  /\ disp[SendSlot].written = {2}
  /\ last.term = 2
  /\ activeTerminal = 1

(***************************************************************************)
(* The debounced evaluation of handleDataChunk, checked under SpecQuiet.   *)
(***************************************************************************)
\* the texts the chunks of the stream leave after sanitising
CleanedChunks == {sanitizeTerminalData(chunk) : chunk \in Chunks} \ {<<>>}

\* handleDataChunk has changed the tracker of session t: a chunk that is not empty
\* after sanitising
ChunkHandled(t) ==
  /\ last'.op = "chunk" /\ last'.term = t
  /\ trackers'[t] # trackers[t]

\* the debounce: a chunk leaves one evaluation pending, the one that was pending before
\* it if there was one (created in the same generation as before, so neither a second
\* timer nor a later one), and lies in the window of the buffer; a pending evaluation
\* ends only when it runs or when the execution ends or the session is closed; an
\* evaluation runs only when it was pending; and nothing but a chunk, the start or end
\* of an execution and the close changes the buffer it reads
DebouncedEvaluation(t) ==
  LET tr == trackers[t]
      after == trackers'[t]
  IN /\ ChunkHandled(t) =>
          /\ after.evaluateTimer
          /\ after.evaluateVersion =
               IF tr.evaluateTimer THEN tr.evaluateVersion ELSE tr.executionVersion
          /\ \E cleaned \in CleanedChunks :
               after.buffer = SliceLast(tr.buffer \o cleaned, BufferSize)
          /\ after.executionVersion = tr.executionVersion
     /\ (tr.evaluateTimer /\ ~after.evaluateTimer) =>
          /\ last'.op \in {"evaluate", "executionEnd", "close"}
          /\ last'.term = t
     /\ (last'.op = "evaluate" /\ last'.term = t) =>
          /\ tr.evaluateTimer
          /\ ~after.evaluateTimer
     /\ after.buffer # tr.buffer =>
          last'.op \in {"chunk", "executionStart", "executionEnd", "close"}

\* an evaluation is pending for session t
EvaluationPending(t) == t \in tracked /\ trackers[t].evaluateTimer

\* C34 as stated: per tracker at most one evaluation is pending, chunks that arrive
\* while it is pending do not postpone it, and every chunk that is not empty after
\* sanitising is followed by an evaluation of a buffer that includes it unless an
\* execution-end or close event arrives first: the evaluation that ends the wait reads
\* the buffer of the generation in which the chunk armed it.
C34_ChunkEvaluatedUnlessEndOrClose ==
  [][\A t \in EngineTerminals :
       /\ DebouncedEvaluation(t)
       /\ (last'.op = "evaluate" /\ last'.term = t) =>
            trackers[t].evaluateVersion = trackers[t].executionVersion]_vars

\* C34 amended: the same unless an execution-start, execution-end or close event
\* arrives first. The start of an execution empties the buffer and leaves the pending
\* evaluation armed, which then reads the buffer of the new execution; a chunk of the
\* execution that is current when the evaluation runs lies in the window it reads.
\* Every pending evaluation ends (it runs, or the execution ends, or the session is
\* closed).
C34_ChunkEvaluatedUnlessStartEndOrClose ==
  /\ [][\A t \in EngineTerminals : DebouncedEvaluation(t)]_vars
  /\ \A t \in EngineTerminals : EvaluationPending(t) ~> ~EvaluationPending(t)

\* an evaluation has run on a buffer that holds the output of the current execution
C34_Witness ==
  /\ last.op = "evaluate"
  /\ last.term \in tracked
  /\ trackers[last.term].buffer # <<>>
  /\ ~trackers[last.term].evaluateTimer

\* a chunk of the second execution arrived while the evaluation armed in the first was
\* pending, and that evaluation stays the pending one
C34_WitnessNotPostponed ==
  /\ last.op = "chunk"
  /\ last.term \in tracked
  /\ trackers[last.term].evaluateTimer
  /\ trackers[last.term].evaluateVersion = 1
  /\ trackers[last.term].executionVersion = 2
  /\ trackers[last.term].buffer # <<>>

\* an execution started while an evaluation was pending: the evaluation has run on the
\* empty buffer of the new execution
C34_WitnessStartFirst ==
  /\ last.op = "evaluate"
  /\ last.term \in tracked
  /\ trackers[last.term].buffer = <<>>
  /\ trackers[last.term].executionVersion = 2

(***************************************************************************)
(* SpecGuarded: polling runs and chain runs whose options enable the       *)
(* keyword guard and the confirmation, with a command that holds a keyword *)
(* and a busy session among the targets.                                   *)
(***************************************************************************)
\* the options of the runs: guard and confirmation enabled, no wave delay
GuardedOptions == Options(TRUE, TRUE, SensitiveKeywords, WaveThreshold, 0)

\* a command, and a script of one command step, that hold the keyword rm
GuardedCommand == <<"R", "m">>

NextGuarded ==
  \/ \E terminalList \in AutomationTargetLists :
       StartPolling(terminalList, GuardedCommand, 100, GuardedOptions)
         /\ UNCHANGED <<envEvents, restVars>>
  \/ PollingTimerFires /\ UNCHANGED <<envEvents, restVars>>
  \/ \E terminalList \in AutomationTargetLists :
       StartChain(terminalList, GuardedCommand, 0, GuardedOptions)
         /\ UNCHANGED <<envEvents, restVars>>
  \/ \E s \in TickSlots \cup ChainSlots :
       \/ ResumeAfterTab(s) /\ UNCHANGED <<envEvents, restVars>>
       \/ SendEnterSequence(s, FALSE) /\ UNCHANGED <<envEvents, restVars>>
       \/ RestoreForeground(s) /\ UNCHANGED <<envEvents, restVars>>
       \/ ResumeLineDelay(s) /\ UNCHANGED <<envEvents, restVars>>
  \/ \E t \in AllTerminals :
       \/ Counted(QuietTimerFires(t))
       \/ Counted(Disposed(CloseTerminal(t)))

SpecGuarded == InitAutomationSpec /\ [][NextGuarded]_vars

\* the dispatch record d is of a command the keyword guard of its options matches
GuardMatches(d) ==
  /\ d.options.enableSensitiveCommandGuard
  /\ d.options.requireConfirmBeforeBroadcast
  /\ \E k \in 1 .. Len(d.options.sensitiveKeywords) :
       /\ StripWhitespace(d.options.sensitiveKeywords[k]) # <<>>
       /\ includes(toLowerCase(d.command), toLowerCase(trim(d.options.sensitiveKeywords[k])))

\* the status records a run assigned in the last step
RunStatusEffects ==
  {last.effects[i] : i \in {k \in 1 .. Len(last.effects) :
                              /\ last.effects[k].what = "status"
                              /\ last.effects[k].by.kind \in {"polling", "chain"}}}

C35_WitnessChain ==
  /\ \E c \in ChainSlots :
       /\ GuardMatches(disp[c])
       /\ disp[c].reached = {NumTerminals - 1, NumTerminals}
       /\ disp[c].owner.kind = "chain"
  /\ bcast = IdleBroadcast

\* a tick has come back and recorded that it sent to both targets
C35_WitnessCount ==
  /\ \E e \in RunStatusEffects : e.by.kind = "polling" /\ e.value.polling.lastSentCount = 2

(***************************************************************************)
(* Dispatches that share a target, checked on the runs of SpecAutomation.  *)
(***************************************************************************)
\* the dispatch of slot s has written a line to its target and has not yet sent the
\* carriage return that submits it
SubmitPending(s) == disp[s].pc \in {"afterTab", "enterWait"}

\* C36: between the write of a line to session T and the carriage return that submits
\* it, no other dispatch writes text or a queuing keystroke to T: while a dispatch has a
\* line written to T and not yet submitted, every such write to T is its own.
C36_WritesNotInterleaved ==
  \A s \in Slots :
    SubmitPending(s) =>
      \A i \in 1 .. Len(last.wrote) :
        (/\ last.wrote[i].kind \in {"text", "tab"}
         /\ last.wrote[i].open
         /\ last.wrote[i].term = disp[s].targets[disp[s].i]) =>
          last.wrote[i].by = disp[s].owner

\* a polling tick and a chain command step both have a line written to the same open
\* session and not yet submitted
C36_TickAndStepInterleaved ==
  \E s \in TickSlots, c \in ChainSlots :
    /\ SubmitPending(s) /\ SubmitPending(c)
    /\ disp[s].targets[disp[s].i] = disp[c].targets[disp[c].i]
    /\ disp[s].targets[disp[s].i] \in terminals

\* the tick of a restarted polling run and the dispatch of the run before it both have
\* a line written to the same open session and not yet submitted
C36_RestartedRunInterleaved ==
  \E s \in TickSlots, o \in TickSlots :
    /\ s # o
    /\ SubmitPending(s) /\ SubmitPending(o)
    /\ disp[s].owner.run < disp[o].owner.run
    /\ disp[s].targets[disp[s].i] = disp[o].targets[disp[o].i]
    /\ disp[s].targets[disp[s].i] \in terminals

(***************************************************************************)
(* SpecWaitAfterCommand: chains that wait for readiness after a command    *)
(* step, on one idle session that starts and ends executions.              *)
(***************************************************************************)
\* a command, a wait for readiness with stableMs 0, and a second command
CommandWaitCommandScript ==
  <<"l", "s", "\n", "w", "a", "i", "t", "_", "r", "e", "a", "d", "y", ":", "0", "\n",
    "l", "s">>

\* a command and a wait for readiness stable for one probe interval
CommandStableWaitScript ==
  <<"l", "s", "\n", "w", "a", "i", "t", "_", "r", "e", "a", "d", "y", ":", "2", "0", "0">>

WaitAfterCommandScripts == {CommandWaitCommandScript, CommandStableWaitScript}

\* an event of the session, counted
SessionEvent(event) ==
  /\ envEvents < MaxRunEvents
  /\ event
  /\ envEvents' = envEvents + 1
  /\ UNCHANGED restVars

NextWaitAfterCommand ==
  \/ \E chainScript \in WaitAfterCommandScripts :
       StartChain(<<NumTerminals>>, chainScript, 1400, AutomationOptions)
         /\ UNCHANGED <<envEvents, restVars>>
  \/ \E c \in ChainSlots :
       \/ ReadyProbeElapses(c) /\ UNCHANGED <<envEvents, restVars>>
       \/ SendEnterSequence(c, FALSE) /\ UNCHANGED <<envEvents, restVars>>
       \/ RestoreForeground(c) /\ UNCHANGED <<envEvents, restVars>>
       \/ ResumeLineDelay(c) /\ UNCHANGED <<envEvents, restVars>>
  \/ SessionEvent(handleExecutionStart(NumTerminals, <<"l", "s">>))
  \/ SessionEvent(handleExecutionEnd(NumTerminals))

SpecWaitAfterCommand == InitRuns /\ [][NextWaitAfterCommand]_vars

\* the call of executeChain in slot c comes back from the dispatch of a command step
\* that a wait for readiness follows
WaitFollowsCommand(c) ==
  /\ chains[c].pc = "dispatching"
  /\ disp[c].pc # "idle"
  /\ disp'[c] # disp[c]
  /\ disp'[c].pc \in {"idle", "done"} \/ chains'[c].stepIndex # chains[c].stepIndex
  /\ chains[c].stepIndex + 2 <= Len(chains[c].steps)
  /\ chains[c].steps[chains[c].stepIndex + 2].kind = "waitReady"
  /\ chains[c].runId = chainRunId /\ status.chain.active

\* C37: a session that is IDLE leaves IDLE only at an execution-start event, so the
\* input a dispatch sends to it changes nothing and it stays ready; a wait-ready step
\* that follows a command step therefore finds a target that is still IDLE ready at its
\* first poll (its ready streak starts at time 0 of the wait) and, with stableMs 0, is
\* over in the step in which the command step returns, before the command has started
\* executing.
C37_IdleTargetReadyAtOnce ==
  [][/\ \A t \in AllTerminals :
          (getState(t) = IDLE /\ getStateAfter(t) # IDLE) =>
             (last'.op = "executionStart" /\ last'.term = t)
     /\ \A c \in ChainSlots :
          (WaitFollowsCommand(c)
             /\ \A t \in Range(chains[c].terminals) \cap terminals : getState(t) = IDLE) =>
            LET step == chains[c].steps[chains[c].stepIndex + 2]
            IN /\ last'.caught = <<>>
               /\ step.stableMs = 0 =>
                    \/ chains'[c].stepIndex >= chains[c].stepIndex + 2
                    \/ chains'[c] = IdleChain
               /\ step.stableMs > 0 =>
                    /\ chains'[c].pc = "waitReady"
                    /\ chains'[c].elapsed = 0
                    /\ \A t \in Range(chains[c].terminals) \cap terminals :
                         chains'[c].readySince[t] = 0]_vars

\* the wait with stableMs 0 is over and the second command is being written while the
\* session is IDLE and no execution has started on it
C37_Witness ==
  \E c \in ChainSlots :
    /\ chains[c].steps = parseChainScript(CommandWaitCommandScript).steps
    /\ chains[c].stepIndex = 2
    /\ chains[c].pc = "dispatching"
    /\ last.op \in {"restore", "afterLineDelay"}
    /\ \E i \in 1 .. Len(last.wrote) :
         last.wrote[i].kind = "text" /\ last.wrote[i].term = NumTerminals
    /\ getState(NumTerminals) = IDLE
    /\ trackers[NumTerminals].executionVersion = 0
    /\ envEvents = 0

\* the wait with stableMs 200 has begun with the ready streak of the idle session
\* starting at its first poll
C37_WitnessStreak ==
  \E c \in ChainSlots :
    /\ chains[c].pc = "waitReady"
    /\ chains[c].elapsed = 0
    /\ chains[c].readySince[NumTerminals] = 0
    /\ getState(NumTerminals) = IDLE
    /\ trackers[NumTerminals].executionVersion = 0

\* the execution started before the command step returned: the wait with stableMs 0
\* waits
C37_WitnessBusy ==
  \E c \in ChainSlots :
    /\ chains[c].pc = "waitReady"
    /\ chains[c].steps[chains[c].stepIndex + 1].stableMs = 0
    /\ getState(NumTerminals) = RUNNING_PROGRAM

(***************************************************************************)
(* The queuing keystroke of sendResolvedCommand, checked on the calls of   *)
(* SpecBroadcast.                                                          *)
(***************************************************************************)
\* the writes of the step that are the first line of a target's text
FirstLineWrites ==
  {i \in 1 .. Len(last'.wrote) :
     /\ last'.wrote[i].kind = "text"
     /\ disp'[SendSlot].ln = 1}

\* write i of the step is followed by the queuing keystroke to the same session
TabFollows(i) ==
  /\ i + 1 \in 1 .. Len(last'.wrote)
  /\ last'.wrote[i + 1].kind = "tab"
  /\ last'.wrote[i + 1].term = last'.wrote[i].term

\* C38: a tracker that is a recognised interactive CLI is in the middle of an execution
\* (not IDLE); the first line written to such a target is followed by the queuing
\* keystroke whichever state it was in before (RUNNING_PROGRAM, CLI_WAITING or
\* CLI_THINKING), and it is CLI_THINKING when the state is read; a target that was IDLE
\* gets no queuing keystroke, neither after the first line nor after a later line of
\* that text, and no queuing keystroke is ever written to a session that is IDLE.
C38_FirstLineQueuedForInteractiveCli ==
  [][/\ \A t \in AllTerminals : isInteractiveCliSession(t) => getState(t) # IDLE
     /\ \A i \in FirstLineWrites :
          LET t == last'.wrote[i].target
          IN /\ last'.wrote[i].term = t
             /\ isInteractiveCliSession(t) =>
                  /\ TabFollows(i)
                  /\ t \in terminals' => getStateAfter(t) = CLI_THINKING
             /\ getState(t) = IDLE =>
                  /\ ~TabFollows(i)
                  /\ ~disp'[SendSlot].interactiveCli
     /\ \A i \in 1 .. Len(last'.wrote) :
          last'.wrote[i].kind = "tab" =>
            /\ getState(last'.wrote[i].target) # IDLE
            /\ disp'[SendSlot].interactiveCli]_vars

\* a broadcast found the interactive CLI ready (CLI_WAITING) and wrote the first line to
\* it in the same step: the line is followed by the queuing keystroke
C38_Witness ==
  /\ last.op = "broadcast"
  /\ ~bcast.behavior.skipBusyFilter
  /\ disp[SendSlot].ln = 1
  /\ \E i \in WritesOfKind("text") :
       /\ i + 1 \in WritesOfKind("tab")
       /\ last.wrote[i].target \in Range(bcast.ready)
       /\ isInteractiveCliSession(last.wrote[i].target)
       /\ getState(last.wrote[i].target) = CLI_THINKING

\* the target was IDLE when its text began and codex started before the second line:
\* the second line is written to an interactive CLI without the queuing keystroke
C38_WitnessIdle ==
  /\ disp[SendSlot].ln = 2
  /\ ~disp[SendSlot].interactiveCli
  /\ WritesOfKind("tab") = {}
  /\ \E i \in WritesOfKind("text") :
       /\ isInteractiveCliSession(last.wrote[i].target)
       /\ getState(last.wrote[i].target) = RUNNING_PROGRAM

\* the first line to an interactive CLI that was busy (not among the ready sessions of
\* the broadcast) is followed by the queuing keystroke
C38_WitnessBusy ==
  /\ disp[SendSlot].ln = 1
  /\ \E i \in WritesOfKind("text") :
       /\ i + 1 \in WritesOfKind("tab")
       /\ last.wrote[i].target \notin Range(bcast.ready)
       /\ isInteractiveCliSession(last.wrote[i].target)

(***************************************************************************)
(* The ready-wait of broadcast with a closed candidate, checked on the     *)
(* calls of SpecBroadcast.                                                 *)
(***************************************************************************)
\* the candidates of the call that are no longer open
ClosedCandidates == Range(bcast'.candidates) \ terminals

\* this step is the return of waitForReadyCandidates in a call that was given a timeout,
\* with what broadcast does up to its next await
ReadyWaitReturns ==
  /\ bcast'.behavior.waitUntilReadyMs > 0
  /\ bcast.pc \in {"idle", "busyPrompt", "guardPrompt", "confirmPrompt", "readyWait"}
  /\ bcast'.pc \in {"dispatching", "returned", "threw"}
  /\ Len(bcast'.candidates) > 0
  /\ bcast'.guarded # "dismissed"
  /\ bcast'.confirmed # "dismissed"

\* C39: when a candidate of the ready-wait is closed, waitForReadyCandidates does not
\* return before the timeout has elapsed, also when every open candidate is ready; what
\* it returns then holds no closed candidate, and the dispatch is to all candidates, the
\* closed one included, when forcing is allowed, and to the open ready ones otherwise.
C39_ClosedCandidateWaitsFullTimeout ==
  [][(ReadyWaitReturns /\ ClosedCandidates # {}) =>
       LET b == bcast'
       IN /\ b.elapsed >= b.behavior.waitUntilReadyMs
          /\ terminals' = terminals
          /\ Range(ReadyNow) \cap ClosedCandidates = {}
          /\ Len(ReadyNow) < Len(b.candidates)
          /\ b.behavior.allowForceAfterReadyTimeout =>
               /\ b.pc \in {"dispatching", "threw"}
               /\ disp'[SendSlot].targets = b.candidates
               /\ ClosedCandidates \subseteq Range(disp'[SendSlot].targets)
          /\ (~b.behavior.allowForceAfterReadyTimeout /\ Len(ReadyNow) > 0) =>
               /\ b.pc = "dispatching"
               /\ disp'[SendSlot].targets = ReadyNow
               /\ b.warning = SomeBusyWarning
          /\ (~b.behavior.allowForceAfterReadyTimeout /\ Len(ReadyNow) = 0) =>
               /\ b.pc = "returned"
               /\ b.warning = NoReadyWarning
               /\ last'.wrote = <<>>]_vars

\* every open candidate of the call is ready and a candidate is closed
OthersReadyOneClosed ==
  /\ Range(bcast.candidates) \ terminals # {}
  /\ Range(bcast.candidates) \cap terminals # {}
  /\ \A t \in Range(bcast.candidates) \cap terminals : isReadyForBroadcast(t)

\* the wait ran to its timeout although every open candidate was ready, and the forced
\* dispatch is to all candidates, the closed one included
C39_Witness ==
  /\ bcast.pc = "dispatching"
  /\ last.op = "readyWaitPoll"
  /\ bcast.behavior.allowForceAfterReadyTimeout
  /\ bcast.elapsed >= bcast.behavior.waitUntilReadyMs
  /\ OthersReadyOneClosed
  /\ disp[SendSlot].targets = bcast.candidates

\* the same without forcing: the closed candidate is left out of the dispatch
C39_WitnessLeftOut ==
  /\ bcast.pc = "dispatching"
  /\ last.op = "readyWaitPoll"
  /\ ~bcast.behavior.allowForceAfterReadyTimeout
  /\ bcast.elapsed >= bcast.behavior.waitUntilReadyMs
  /\ OthersReadyOneClosed
  /\ Range(disp[SendSlot].targets) = Range(bcast.candidates) \cap terminals

\* the candidate the wait was waiting for has closed during the wait, every other
\* candidate is ready, and the wait goes on
C39_WitnessClosedDuringWait ==
  /\ bcast.pc = "readyWait"
  /\ last.op = "close"
  /\ last.term \in Range(bcast.candidates)
  /\ OthersReadyOneClosed
  /\ bcast.elapsed < bcast.behavior.waitUntilReadyMs

(***************************************************************************)
(* The selection of the control panel: ControlPanelProvider.terminals and  *)
(* selectedKeys over the refreshes of the terminal list.                   *)
(***************************************************************************)
\* highest value of ControlPanelProvider.refreshNonce
MaxRefreshNonce == 3
\* highest number of calls of refreshTerminals in flight at once
MaxRefreshes == 2

\* TerminalDescriptor.processId of a session whose process id did not resolve in time
NoProcessId == 0

\* the names of the sessions of the panel's runs: two shells and a third session
PanelNames ==
  {[t \in AllTerminals |-> IF t < NumTerminals THEN <<"s", "h">> ELSE name] :
     name \in {<<"s", "h">>, <<"p", "y">>}}

\* the sets of sessions whose process id resolves in time
KnownProcessIds == {{}, {2}, AllTerminals}

\* the values of the setting autoSelectRegex: blank, a pattern of literal
\* characters, and one that does not compile
AutoSelectRegexes == {<<" ">>, <<"y">>, <<"(">>}

\* String(pid)
PidString(pid) == IF pid < 0 THEN <<"-">> \o DecimalString(-pid) ELSE DecimalString(pid)

\* the key of a descriptor up to its positional suffix
keyBase(descriptor) ==
  LET pid == IF descriptor.processId = NoProcessId THEN -1 ELSE descriptor.processId
  IN descriptor.name \o <<":", ":">> \o PidString(pid)

toManagedTerminals(descriptors) ==
  [i \in 1 .. Len(descriptors) |->
     LET descriptor == descriptors[i]
         base == keyBase(descriptor)
         order == Cardinality({j \in 1 .. i : keyBase(descriptors[j]) = base})
     IN [key |-> base \o <<":", ":">> \o DecimalString(order),
         terminal |-> descriptor.terminal, name |-> descriptor.name,
         processId |-> descriptor.processId]]

\* regex.test(name) for a pattern of literal characters
regexTest(regex, name) == includes(name, regex.source)

applyRegexSelection(managed, autoSelectRegex) ==
  IF trim(autoSelectRegex) = <<>> THEN {}
  ELSE LET regex == NewRegExp(autoSelectRegex, <<>>)
       IN IF ~regex.compiled THEN {}
          ELSE {managed[i].key : i \in {j \in 1 .. Len(managed) :
                                          regexTest(regex, managed[j].name)}}

\* TerminalManager.listTerminals: the descriptors of vscode.window.terminals, in the
\* window's order, with the cached process ids
listTerminals(p, windowTerminals) ==
  LET open == SelectSeq([t \in 1 .. NumTerminals |-> t], LAMBDA t : t \in windowTerminals)
  IN [i \in 1 .. Len(open) |->
        [terminal |-> open[i], name |-> p.descriptors[open[i]].name,
         processId |-> p.descriptors[open[i]].processId]]

\* refreshTerminals up to its await of listTerminals
refreshTerminals(p, windowTerminals) ==
  [p EXCEPT !.refreshNonce = @ + 1,
            !.refreshes = @ \cup {[currentNonce |-> p.refreshNonce + 1,
                                   descriptors |-> listTerminals(p, windowTerminals),
                                   pc |-> "listing"]}]

\* the end of refreshTerminals: the regex selection for an empty selection
refreshTerminalsAutoSelect(p, r) ==
  [p EXCEPT !.selectedKeys = IF @ = {}
                             THEN applyRegexSelection(p.terminals, p.autoSelectRegex)
                             ELSE @,
            !.refreshes = @ \ {r}]

\* refreshTerminals from the return of listTerminals: the stale call returns, the
\* current one replaces the list and drops the selected keys that are not in it;
\* persistViewPreferences is awaited when the normalised preferences differ
refreshTerminalsListed(p, r, preferencesChanged) ==
  IF r.currentNonce # p.refreshNonce
  THEN [p EXCEPT !.refreshes = @ \ {r}]
  ELSE LET managed == toManagedTerminals(r.descriptors)
           availableKeys == {managed[i].key : i \in 1 .. Len(managed)}
           listed == [p EXCEPT !.terminals = managed,
                               !.selectedKeys = @ \cap availableKeys]
       IN IF preferencesChanged
          THEN [listed EXCEPT !.refreshes = (@ \ {r}) \cup {[r EXCEPT !.pc = "persisting"]}]
          ELSE refreshTerminalsAutoSelect(listed, r)

resolveSelectedTerminals(p) ==
  LET selected == SelectSeq(p.terminals, LAMBDA item : item.key \in p.selectedKeys)
  IN [i \in 1 .. Len(selected) |-> selected[i].terminal]

\* a step of the panel that leaves the sessions alone; args: the sessions selected
\* before the step
PanelStep(p, op) ==
  /\ panel' = p
  /\ last' = [Step(op, NoTerminal, <<>>) EXCEPT
                !.args = <<Range(resolveSelectedTerminals(panel))>>]
  /\ UNCHANGED <<envVars, engineVars, dispatchVars, envEvents, argument, result, unready>>

\* the view's messages requestState and refreshTerminals
RefreshRequested ==
  /\ panel.refreshNonce < MaxRefreshNonce
  /\ Cardinality(panel.refreshes) < MaxRefreshes
  /\ PanelStep(refreshTerminals(panel, terminals), "refreshTerminals")

\* vscode.window.onDidCloseTerminal: deleteTracker, and the panel's refreshTerminals
SessionCloses(t) ==
  /\ panel.refreshNonce < MaxRefreshNonce
  /\ Cardinality(panel.refreshes) < MaxRefreshes
  /\ CloseTerminal(t)
  /\ panel' = refreshTerminals(panel, terminals \ {t})
  /\ UNCHANGED <<sendTextThrows, envEvents, argument, result, unready>>

RefreshListed(r) ==
  /\ r \in panel.refreshes
  /\ r.pc = "listing"
  /\ \E preferencesChanged \in BOOLEAN :
       PanelStep(refreshTerminalsListed(panel, r, preferencesChanged), "refreshListed")

RefreshPersisted(r) ==
  /\ r \in panel.refreshes
  /\ r.pc = "persisting"
  /\ PanelStep(refreshTerminalsAutoSelect(panel, r), "refreshPersisted")

\* the view's message selectAll
SelectAll ==
  PanelStep([panel EXCEPT !.selectedKeys =
               {panel.terminals[i].key : i \in 1 .. Len(panel.terminals)}],
            "selectAll")

\* the view's message clearSelection
ClearSelection == PanelStep([panel EXCEPT !.selectedKeys = {}], "clearSelection")

\* the view's message setSelection
SetSelection(selectedKeys) ==
  PanelStep([panel EXCEPT !.selectedKeys =
               {key \in selectedKeys :
                  \E i \in 1 .. Len(panel.terminals) : panel.terminals[i].key = key}],
            "setSelection")

\* the view is resolved over the open sessions: the first refreshTerminals is in flight
InitPanel ==
  /\ terminals = AllTerminals
  /\ closedTerminals = {}
  /\ activeTerminal = 1
  /\ tracked = {}
  /\ trackers = [t \in AllTerminals |-> NewTracker]
  /\ streams = [t \in AllTerminals |-> {}]
  /\ matched = [t \in AllTerminals |-> FALSE]
  /\ disp = [s \in Slots |-> IdleDispatch]
  /\ bcast = IdleBroadcast
  /\ InitAutomation
  /\ sendTextThrows = FALSE
  /\ envEvents = 0
  /\ last = Step("init", NoTerminal, <<>>)
  /\ argument = <<>>
  /\ result = NoResult
  /\ unready = [c \in ChainSlots |-> [t \in AllTerminals |-> NotReadySince]]
  /\ \E names \in PanelNames, known \in KnownProcessIds,
        autoSelectRegex \in AutoSelectRegexes :
       LET sessions == [t \in 1 .. NumTerminals |->
                          [name |-> names[t],
                           processId |-> IF t \in known THEN 40 + t ELSE NoProcessId]]
           opened == [NoPanel EXCEPT !.descriptors = sessions,
                                     !.autoSelectRegex = autoSelectRegex]
       IN panel = [opened EXCEPT
                     !.refreshNonce = 1,
                     !.refreshes =
                        {[currentNonce |-> 1,
                          descriptors |->
                            [t \in 1 .. NumTerminals |->
                               [terminal |-> t, name |-> sessions[t].name,
                                processId |-> sessions[t].processId]],
                          pc |-> "listing"]}]

NextPanel ==
  \/ RefreshRequested
  \/ \E t \in AllTerminals : SessionCloses(t)
  \/ \E r \in panel.refreshes : RefreshListed(r)
  \/ \E r \in panel.refreshes : RefreshPersisted(r)
  \/ SelectAll
  \/ ClearSelection
  \/ \E selectedKeys \in SUBSET {panel.terminals[i].key : i \in 1 .. Len(panel.terminals)} :
       SetSelection(selectedKeys)

SpecPanel == InitPanel /\ [][NextPanel]_vars

\* the sessions the selection denotes
SelectedSessions == Range(resolveSelectedTerminals(panel))

\* this step is the auto-select regex applied by a refresh to a selection none of whose
\* sessions is left in the list
AutoSelectedFromEmpty ==
  /\ last'.op \in {"refreshListed", "refreshPersisted"}
  /\ SelectedSessions \cap {panel'.terminals[i].terminal :
                              i \in 1 .. Len(panel'.terminals)} = {}
  /\ panel'.selectedKeys = applyRegexSelection(panel'.terminals, panel'.autoSelectRegex)

\* C40: across the refreshes of the terminal list the selection denotes the same
\* sessions: a session that was not selected before a step is selected after it only
\* through a selection action of the view or through the auto-select regex applied to
\* an empty selection, also when a session of the same name and process id closes.
C40_SelectionDenotesSameSessions ==
  [][SelectedSessions' \subseteq SelectedSessions
       \/ last'.op \in {"selectAll", "setSelection"}
       \/ AutoSelectedFromEmpty]_vars

\* a refresh has left a session selected that was not selected before it, by the key of
\* a closed session of the same name and process id, with no regex selection
C40_ShiftedKeySelectsOther ==
  /\ last.op = "refreshListed"
  /\ last.args # <<>>
  /\ SelectedSessions \ last.args[1] # {}
  /\ applyRegexSelection(panel.terminals, panel.autoSelectRegex) = {}

\* no two sessions have the same name and the same or an unknown process id
DistinctKeyBases ==
  \A t, u \in AllTerminals :
    keyBase(panel.descriptors[t]) = keyBase(panel.descriptors[u]) => t = u

\* the statement of C40 for sessions of distinct names or known process ids
C40_HoldsForDistinctKeyBases ==
  [][DistinctKeyBases =>
       \/ SelectedSessions' \subseteq SelectedSessions
       \/ last'.op \in {"selectAll", "setSelection"}
       \/ AutoSelectedFromEmpty]_vars

\* a session closed and the refresh kept the selection of the others, under distinct keys
C40_WitnessDistinct ==
  /\ DistinctKeyBases
  /\ last.op = "refreshListed"
  /\ closedTerminals # {}
  /\ SelectedSessions # {}
  /\ Len(panel.terminals) = Cardinality(terminals)
  /\ SelectedSessions = last.args[1] \cap terminals
  /\ last.args[1] \ terminals # {}

====
